---- MODULE Spec2Model ----
(***************************************************************************)
(* A model of the books.toscrape.com mirror: the concurrent crawler        *)
(* (app/crawler/crawler.py) and the change detector                        *)
(* (app/crawler/change_detector.py) with the repositories it writes to.    *)
(*                                                                         *)
(* The crawler part follows the coroutines of class Crawler: crawl_all is  *)
(* the main coroutine, crawl_book runs as one task per detail link of the  *)
(* current listing page, and every fetch goes through _fetch_with_retry.   *)
(* The bodies of the pages are not known before they are fetched: what the *)
(* extractor finds in a fetched page is chosen when the page is parsed.    *)
(***************************************************************************)
EXTENDS Integers, Sequences, FiniteSets, TLC

(***************************************************************************)
(* Bounds of the model                                                     *)
(***************************************************************************)
\* number of distinct URLs of the site (URL 0 is the site root)
NumUrls == 3
\* largest number of detail links the extractor finds on one listing page
MaxLinks == 2
\* largest number of category links the extractor finds on the root page
MaxCats == 2
\* largest configured retry_max_attempts
MaxAttempts == 2
\* the configured max_concurrent
MaxConcurrent == 1
\* number of distinct source URLs of the items handed to process_book
NumItemUrls == 2
\* largest number of process_book calls
MaxCalls == 2
\* largest number of characters of a price cell
MaxPriceLen == 4
\* settings.rate_limit_per_hour: the requests a client may make in an hour
rate_limit_per_hour == 2
\* timedelta(hours=1), in readings of the clock
Hour == 2
\* largest number of requests to the API
MaxRequests == 5

VARIABLES
    max_attempts,   \* settings.retry_max_attempts of this run
    semaphore,      \* free slots of Crawler.semaphore
    visited_urls,   \* Crawler.visited_urls
    pc,             \* position of the main coroutine (crawl_all)
    n_categories,   \* crawl_all: len(categories), the list get_all_categories returned
    cat,            \* crawl_all: index of the category of the for loop
    current_url,    \* crawl_category: current_url
    books,          \* crawl_category: books
    all_books,      \* crawl_all: all_books
    tasks,          \* task 0: the fetch of the main coroutine; 1..MaxLinks: crawl_book tasks
    dispatched,     \* the URLs _fetch_with_retry was called for in this run
    redispatched,   \* the URLs _fetch_with_retry was called for more than once
    db_books,       \* BookRepository.collection (database.books), in insertion order
    db_change_logs, \* ChangeLogRepository.collection (database.change_logs)
    now,            \* the last reading of datetime.utcnow()
    next_id,        \* the uuid4() values are fresh: the next one
    call,           \* the last process_book call: its argument, what it found, its outcome
    parsed,         \* per URL: how often _parse_book_page returned a BookCreate for it
    batch,          \* process_books: books, the list it was called with
    book_i,         \* process_books: the position of the for loop in books
    change_logs,    \* process_books: change_logs
    cmp,            \* one comparison of a persisted book with a crawled item, step by step
    page,           \* one text under rating_to_int, or one detail page under _parse_book_page
    procs,          \* process_book calls that run side by side: where each one is
    rate_limit_store, \* auth.py: rate_limit_store, per client id its "requests" and "count"
    responses       \* what rate_limit_middleware has answered so far: client, time, status

crawlerVars == <<max_attempts, semaphore, visited_urls, pc, n_categories, cat,
                 current_url, books, all_books, tasks, dispatched,
                 redispatched, parsed>>

detectorVars == <<db_books, db_change_logs, now, next_id, call>>

batchVars == <<batch, book_i, change_logs>>

apiVars == <<rate_limit_store, responses>>

vars == <<crawlerVars, detectorVars, batchVars, cmp, page, procs, apiVars>>

(***************************************************************************)
(* Values                                                                  *)
(***************************************************************************)
Urls == 0 .. (NumUrls - 1)
base_url == 0
NoUrl == -1
TaskIds == 0 .. MaxLinks
BookTasks == 1 .. MaxLinks

RECURSIVE SeqsUpTo(_, _)
SeqsUpTo(S, n) ==
    IF n = 0 THEN {<<>>}
    ELSE LET shorter == SeqsUpTo(S, n - 1)
         IN  shorter \cup {Append(s, x) : s \in {q \in shorter : Len(q) = n - 1}, x \in S}

\* what one attempt of session.get can end in
Retryable == {"status", "timeout", "exception"}
Outcomes == {"200", "404"} \cup Retryable

\* a task that is not running
NoTask == [url |-> NoUrl, at |-> "none", attempt |-> 0, requests |-> 0,
           sleeps |-> 0, delay |-> 0, last |-> "none", html |-> "none", result |-> NoUrl]

(***************************************************************************)
(* Crawler.__init__                                                        *)
(***************************************************************************)
InitCrawler ==
    /\ max_attempts \in 1 .. MaxAttempts
    /\ semaphore = MaxConcurrent
    /\ visited_urls = {}
    /\ pc = "start"
    /\ n_categories = 0
    /\ cat = 1
    /\ current_url = NoUrl
    /\ books = <<>>
    /\ all_books = <<>>
    /\ tasks = [t \in TaskIds |-> NoTask]
    /\ dispatched = {}
    /\ redispatched = {}
    /\ parsed = [u \in Urls |-> 0]

(***************************************************************************)
(* _fetch_with_retry                                                       *)
(***************************************************************************)
\* the call: the task is at the head of the for loop with attempt 0
FetchCall(t, url) ==
    [NoTask EXCEPT !.url = url, !.at = "acquire"]

\* bookkeeping of the calls: not state of the program
Dispatch(url) ==
    /\ dispatched' = dispatched \cup {url}
    /\ redispatched' = IF url \in dispatched THEN redispatched \cup {url} ELSE redispatched

\* a gate that admits every caller
CanAcquireUnbounded == TRUE

\* the semaphore admits a caller while it has a free slot
CanAcquire == semaphore > 0

\* settings.retry_backoff_factor
backoff_factor == 2

\* a delay that grows by the factor with every attempt
BackoffDelayLinear(attempt) == backoff_factor * attempt

\* "backoff_factor ** attempt": the argument of asyncio.sleep
RECURSIVE BackoffDelay(_)
BackoffDelay(attempt) ==
    IF attempt = 0 THEN 1 ELSE backoff_factor * BackoffDelay(attempt - 1)

\* "if attempt < max_attempts - 1": a backoff delay follows the failed attempt
SleepsAfter(attempt) == attempt < max_attempts - 1

\* a loop that runs once more: range(max_attempts + 1)
LoopContinuesOnceMore(attempt) == attempt < max_attempts

\* "for attempt in range(max_attempts)": the loop goes on to another attempt
LoopContinues(attempt) == attempt + 1 < max_attempts

\* a fetcher without the 404 branch: a 404 is one more error status
IsPermanentMissNever(o) == FALSE

\* "elif response.status == 404": the permanent miss
IsPermanentMiss(o) == o = "404"

\* async with self.semaphore / self.session.get(url): the request is sent
Acquire(t) ==
    /\ tasks[t].at = "acquire"
    /\ CanAcquire
    /\ semaphore' = semaphore - 1
    /\ tasks' = [tasks EXCEPT ![t].at = "inflight", ![t].requests = @ + 1]
    /\ UNCHANGED <<max_attempts, visited_urls, pc, n_categories, cat, current_url,
                   books, all_books, dispatched, redispatched,
                   parsed, detectorVars, batchVars, cmp, page, procs, apiVars>>

\* the state of the task after a failed attempt that is followed by no delay
AfterFailure(r) ==
    IF LoopContinues(r.attempt)
    THEN [r EXCEPT !.attempt = @ + 1, !.at = "acquire", !.last = "none"]
    ELSE [r EXCEPT !.attempt = @ + 1, !.at = "returned", !.html = "none"]

\* the attempt ends: a response with a status, a timeout or another exception
Respond(t) ==
    /\ tasks[t].at = "inflight"
    /\ \E o \in Outcomes :
        LET r == [tasks[t] EXCEPT !.last = o] IN
        IF o = "200"
        THEN /\ tasks' = [tasks EXCEPT ![t] = [r EXCEPT !.at = "returned", !.html = "text"]]
             /\ semaphore' = semaphore + 1
        ELSE IF IsPermanentMiss(o)
        THEN /\ tasks' = [tasks EXCEPT ![t] = [r EXCEPT !.at = "returned", !.html = "none"]]
             /\ semaphore' = semaphore + 1
        ELSE IF o = "status"
        THEN \* the delay is taken inside both "async with" blocks
             IF SleepsAfter(r.attempt)
             THEN /\ tasks' = [tasks EXCEPT ![t] = [r EXCEPT !.at = "sleep_in_gate",
                                                             !.sleeps = @ + 1,
                                                             !.delay = BackoffDelay(r.attempt)]]
                  /\ semaphore' = semaphore
             ELSE /\ tasks' = [tasks EXCEPT ![t] = AfterFailure(r)]
                  /\ semaphore' = semaphore + 1
        ELSE \* the exception leaves both "async with" blocks before the handler runs
             /\ semaphore' = semaphore + 1
             /\ IF SleepsAfter(r.attempt)
                THEN tasks' = [tasks EXCEPT ![t] = [r EXCEPT !.at = "sleep", !.sleeps = @ + 1,
                                                              !.delay = BackoffDelay(r.attempt)]]
                ELSE tasks' = [tasks EXCEPT ![t] = AfterFailure(r)]
    /\ UNCHANGED <<max_attempts, visited_urls, pc, n_categories, cat, current_url,
                   books, all_books, dispatched, redispatched,
                   parsed, detectorVars, batchVars, cmp, page, procs, apiVars>>

\* a fetcher that keeps the slot it slept in
WakeKeepsSlot(t) ==
    /\ tasks[t].at \in {"sleep_in_gate", "sleep"}
    /\ semaphore' = semaphore
    /\ tasks' = [tasks EXCEPT ![t] = AfterFailure(tasks[t])]
    /\ UNCHANGED <<max_attempts, visited_urls, pc, n_categories, cat, current_url,
                   books, all_books, dispatched, redispatched,
                   parsed, detectorVars, batchVars, cmp, page, procs, apiVars>>

\* asyncio.sleep(backoff_factor ** attempt) is over
Wake(t) ==
    /\ tasks[t].at \in {"sleep_in_gate", "sleep"}
    /\ semaphore' = IF tasks[t].at = "sleep_in_gate" THEN semaphore + 1 ELSE semaphore
    /\ tasks' = [tasks EXCEPT ![t] = AfterFailure(tasks[t])]
    /\ UNCHANGED <<max_attempts, visited_urls, pc, n_categories, cat, current_url,
                   books, all_books, dispatched, redispatched,
                   parsed, detectorVars, batchVars, cmp, page, procs, apiVars>>

\* "if not html": None, or a response whose text is empty. What the text of a
\* response holds is chosen where it is looked at: blank says it is empty.
Falsy(html, blank) == html = "none" \/ blank

(***************************************************************************)
(* crawl_all, get_all_categories, crawl_category                           *)
(***************************************************************************)
\* crawl_all calls get_all_categories, which fetches the main page
CrawlAll ==
    /\ pc = "start"
    /\ pc' = "get_all_categories"
    /\ tasks' = [tasks EXCEPT ![0] = FetchCall(0, base_url)]
    /\ Dispatch(base_url)
    /\ UNCHANGED <<max_attempts, semaphore, visited_urls, n_categories, cat, current_url,
                   books, all_books,
                   parsed, detectorVars, batchVars, cmp, page, procs, apiVars>>

\* get_all_categories returns the category links of the main page, or []
GetAllCategories ==
    /\ pc = "get_all_categories"
    /\ tasks[0].at = "returned"
    /\ \E blank \in BOOLEAN :
         IF Falsy(tasks[0].html, blank)
         THEN n_categories' = 0
         ELSE n_categories' \in 0 .. MaxCats
    /\ all_books' = <<>>
    /\ cat' = 1
    /\ pc' = "for_category"
    /\ tasks' = [tasks EXCEPT ![0] = NoTask]
    /\ UNCHANGED <<max_attempts, semaphore, visited_urls, current_url, books,
                   dispatched, redispatched,
                   parsed, detectorVars, batchVars, cmp, page, procs, apiVars>>

\* "for category_url in categories": the next crawl_category call, or the return
ForCategory ==
    /\ pc = "for_category"
    /\ IF cat <= n_categories
       THEN /\ current_url' \in Urls
            /\ books' = <<>>
            /\ pc' = "while"
       ELSE /\ pc' = "done"
            /\ UNCHANGED <<current_url, books>>
    /\ UNCHANGED <<max_attempts, semaphore, visited_urls, n_categories, cat, all_books, tasks, dispatched, redispatched,
                   parsed, detectorVars, batchVars, cmp, page, procs, apiVars>>

\* crawl_category returns: crawl_all extends all_books and moves on
ReturnBooks ==
    /\ all_books' = all_books \o books
    /\ books' = <<>>
    /\ cat' = cat + 1
    /\ current_url' = NoUrl
    /\ pc' = "for_category"

\* a failed listing page that ends the run: crawl_all returns what it has
PageFailedAborts ==
    /\ all_books' = all_books \o books
    /\ books' = <<>>
    /\ cat' = cat
    /\ current_url' = NoUrl
    /\ pc' = "done"

\* "if not html: break": the category ends with the books it has
PageFailed == ReturnBooks

\* a traversal without the cycle guard
AlreadyVisitedNever(url) == FALSE

\* "if current_url in self.visited_urls: break"
AlreadyVisited(url) == url \in visited_urls

\* the head of "while current_url": the guards, then the fetch of the page
WhileCurrentUrl ==
    /\ pc = "while"
    /\ IF current_url = NoUrl \/ AlreadyVisited(current_url)
       THEN /\ ReturnBooks
            /\ UNCHANGED <<visited_urls, tasks, dispatched, redispatched>>
       ELSE /\ visited_urls' = visited_urls \cup {current_url}
            /\ tasks' = [tasks EXCEPT ![0] = FetchCall(0, current_url)]
            /\ Dispatch(current_url)
            /\ pc' = "fetch_page"
            /\ UNCHANGED <<cat, current_url, books, all_books>>
    /\ UNCHANGED <<max_attempts, semaphore, n_categories,
                   parsed, detectorVars, batchVars, cmp, page, procs, apiVars>>

\* the listing page is back: break, or extract the links and fan out crawl_book
PageFetched ==
    /\ pc = "fetch_page"
    /\ tasks[0].at = "returned"
    /\ \E blank \in BOOLEAN :
         IF Falsy(tasks[0].html, blank)
         THEN /\ PageFailed
              /\ tasks' = [tasks EXCEPT ![0] = NoTask]
         ELSE /\ \E book_urls \in SeqsUpTo(Urls, MaxLinks) :
                  tasks' = [t \in TaskIds |->
                              IF t \in 1 .. Len(book_urls)
                              THEN [NoTask EXCEPT !.url = book_urls[t], !.at = "start"]
                              ELSE NoTask]
              /\ pc' = "gather"
              /\ UNCHANGED <<cat, current_url, books, all_books>>
    /\ UNCHANGED <<max_attempts, semaphore, visited_urls, n_categories, dispatched, redispatched,
                   parsed, detectorVars, batchVars, cmp, page, procs, apiVars>>

\* crawl_book is over: the task holds its result (the BookCreate of url, or None)
Returns(url, result) ==
    [NoTask EXCEPT !.url = url, !.at = "done", !.result = result]

\* a crawl_book that checks the visited set and never marks the URL
CrawlBookUnmarked(t) ==
    /\ t \in BookTasks
    /\ tasks[t].at = "start"
    /\ \A s \in 1 .. (t - 1) : tasks[s].at # "start"
    /\ IF AlreadyVisited(tasks[t].url)
       THEN /\ tasks' = [tasks EXCEPT ![t] = Returns(tasks[t].url, NoUrl)]
            /\ UNCHANGED <<dispatched, redispatched>>
       ELSE /\ tasks' = [tasks EXCEPT ![t] = FetchCall(t, tasks[t].url)]
            /\ Dispatch(tasks[t].url)
    /\ UNCHANGED <<max_attempts, semaphore, visited_urls, pc, n_categories, cat, current_url,
                   books, all_books, parsed, detectorVars, batchVars, cmp, page, procs, apiVars>>

\* crawl_book up to its fetch: the check and the marking run without a suspension
CrawlBook(t) ==
    /\ t \in BookTasks
    /\ tasks[t].at = "start"
    \* the event loop starts the tasks of gather in the order of the list
    /\ \A s \in 1 .. (t - 1) : tasks[s].at # "start"
    /\ IF AlreadyVisited(tasks[t].url)
       THEN /\ tasks' = [tasks EXCEPT ![t] = Returns(tasks[t].url, NoUrl)]
            /\ UNCHANGED <<visited_urls, dispatched, redispatched>>
       ELSE /\ visited_urls' = visited_urls \cup {tasks[t].url}
            /\ tasks' = [tasks EXCEPT ![t] = FetchCall(t, tasks[t].url)]
            /\ Dispatch(tasks[t].url)
    /\ UNCHANGED <<max_attempts, semaphore, pc, n_categories, cat, current_url, books, all_books,
                   parsed, detectorVars, batchVars, cmp, page, procs, apiVars>>

\* crawl_book after its fetch: None, or what _parse_book_page returns
BookFetched(t) ==
    /\ t \in BookTasks
    /\ tasks[t].at = "returned"
    /\ \E blank \in BOOLEAN :
         IF Falsy(tasks[t].html, blank)
         THEN /\ tasks' = [tasks EXCEPT ![t] = Returns(tasks[t].url, NoUrl)]
              /\ parsed' = parsed
         ELSE \E ok \in BOOLEAN :
                  /\ tasks' = [tasks EXCEPT ![t] =
                                 Returns(tasks[t].url, IF ok THEN tasks[t].url ELSE NoUrl)]
                  /\ parsed' = IF ok THEN [parsed EXCEPT ![tasks[t].url] = @ + 1] ELSE parsed
    /\ UNCHANGED <<max_attempts, semaphore, visited_urls, pc, n_categories, cat, current_url,
                   books, all_books, dispatched, redispatched,
                   detectorVars, batchVars, cmp, page, procs, apiVars>>

\* a collection of the results without the isinstance test
RECURSIVE PageBooksUnfiltered(_)
PageBooksUnfiltered(n) ==
    IF n = 0 THEN <<>>
    ELSE IF tasks[n].at = "done"
         THEN Append(PageBooksUnfiltered(n - 1), tasks[n].result)
         ELSE PageBooksUnfiltered(n - 1)

\* the BookCreate results of the page, in the order of the tasks
RECURSIVE PageBooks(_)
PageBooks(n) ==
    IF n = 0 THEN <<>>
    ELSE IF tasks[n].at = "done" /\ tasks[n].result # NoUrl
         THEN Append(PageBooks(n - 1), tasks[n].result)
         ELSE PageBooks(n - 1)

\* a crawl_category that starts the detail tasks and does not wait for them
GatheredUnawaited ==
    /\ pc = "gather"
    /\ books' = books \o PageBooks(MaxLinks)
    /\ current_url' \in Urls \cup {NoUrl}
    /\ tasks' = tasks
    /\ pc' = "while"
    /\ UNCHANGED <<max_attempts, semaphore, visited_urls, n_categories, cat, all_books,
                   dispatched, redispatched,
                   parsed, detectorVars, batchVars, cmp, page, procs, apiVars>>

\* a crawl_category that goes on as soon as one detail task has ended
GatheredFirstCompleted ==
    /\ pc = "gather"
    /\ \E t \in BookTasks : tasks[t].at = "done"
    /\ books' = books \o PageBooks(MaxLinks)
    /\ current_url' \in Urls \cup {NoUrl}
    /\ tasks' = [t \in TaskIds |-> IF tasks[t].at = "done" THEN NoTask ELSE tasks[t]]
    /\ pc' = "while"
    /\ UNCHANGED <<max_attempts, semaphore, visited_urls, n_categories, cat, all_books,
                   dispatched, redispatched,
                   parsed, detectorVars, batchVars, cmp, page, procs, apiVars>>

\* asyncio.gather is over: collect the books, follow the next-page link
Gathered ==
    /\ pc = "gather"
    /\ \A t \in BookTasks : tasks[t].at \in {"none", "done"}
    /\ books' = books \o PageBooks(MaxLinks)
    /\ current_url' \in Urls \cup {NoUrl}
    /\ tasks' = [t \in TaskIds |-> NoTask]
    /\ pc' = "while"
    /\ UNCHANGED <<max_attempts, semaphore, visited_urls, n_categories, cat, all_books,
                   dispatched, redispatched,
                   parsed, detectorVars, batchVars, cmp, page, procs, apiVars>>

NextCrawler ==
    \/ CrawlAll
    \/ GetAllCategories
    \/ ForCategory
    \/ WhileCurrentUrl
    \/ PageFetched
    \/ Gathered
    \/ \E t \in TaskIds : Acquire(t)
    \/ \E t \in TaskIds : Respond(t)
    \/ \E t \in TaskIds : Wake(t)
    \/ \E t \in TaskIds : CrawlBook(t)
    \/ \E t \in TaskIds : BookFetched(t)

(***************************************************************************)
(* Items (BookCreate) and persisted books (Book)                           *)
(***************************************************************************)
\* Optional[...] = None
None == "<None>"

\* prices are counted in units of 0.005: 3998 is 19.99
PriceTolerance == 2

ItemUrls == 1 .. NumItemUrls
Names == {"Test Book"}
Descriptions == {None, "A description"}
Categories == {"Fiction"}
Prices == {3998, 3999, 3198}
Availabilities == {"In stock", "Out of stock"}
Ratings == {4}
ReviewCounts == {0}

BookCreate ==
    [source_url : ItemUrls, name : Names, description : Descriptions,
     category : Categories, price_including_tax : Prices,
     price_excluding_tax : {3998}, availability : Availabilities,
     number_of_reviews : ReviewCounts, image_url : {None}, rating : Ratings,
     raw_html : {None}]

ItemFields == {"source_url", "name", "description", "category", "price_including_tax",
               "price_excluding_tax", "availability", "number_of_reviews", "image_url",
               "rating", "raw_html"}

\* BaseModel.model_dump(): the dict of the fields
ModelDump(item) == [f \in ItemFields |-> item[f]]

\* a Python dict and a Python list, as the values of changed_fields
PyDict(keys) == [type |-> "dict", items |-> keys]
PyList(elems) == [type |-> "list", items |-> elems]
EmptyDict == <<>>

Abs(x) == IF x < 0 THEN -x ELSE x

(***************************************************************************)
(* generate_data_hash: SHA-256 of the JSON text of the five significant    *)
(* fields, keys sorted. The digest is taken to be injective: it is the     *)
(* tuple of the five values in key order.                                  *)
(***************************************************************************)
\* a fingerprint that takes the description in
generate_data_hash_with_description(data) ==
    <<data.availability, data.description, data.name, data.price_excluding_tax,
      data.price_including_tax, data.rating>>

\* a fingerprint that leaves the rating out
generate_data_hash_without_rating(data) ==
    <<data.availability, data.name, data.price_excluding_tax,
      data.price_including_tax>>

generate_data_hash(data) ==
    <<data.availability, data.name, data.price_excluding_tax,
      data.price_including_tax, data.rating>>

(***************************************************************************)
(* BookRepository                                                          *)
(***************************************************************************)
\* a lookup that finds nothing
FindOneNever(docs, field, value) == 0

\* find_one(filter): the index of the first document that matches, or 0
FindOne(docs, field, value) ==
    IF \E i \in 1 .. Len(docs) : docs[i][field] = value
    THEN CHOOSE i \in 1 .. Len(docs) :
            /\ docs[i][field] = value
            /\ \A j \in 1 .. (i - 1) : docs[j][field] # value
    ELSE 0

\* update_one(filter, {"$set": data}) on the first document that matches
SetFields(doc, data) ==
    [f \in DOMAIN doc \cup DOMAIN data |-> IF f \in DOMAIN data THEN data[f] ELSE doc[f]]

UpdateOne(docs, field, value, data) ==
    LET i == FindOne(docs, field, value)
    IN  IF i = 0 THEN docs ELSE [docs EXCEPT ![i] = SetFields(docs[i], data)]

\* BookRepository.update: the crawl_timestamp is set in every update
BookUpdate(docs, book_id, update_data, utcnow) ==
    UpdateOne(docs, "id", book_id,
              SetFields(update_data, [crawl_timestamp |-> utcnow]))

\* the document upsert_by_url and create build from a BookCreate
BookDocument(book_data, id, utcnow) ==
    SetFields(ModelDump(book_data),
              [crawl_timestamp |-> utcnow, status |-> "active",
               data_hash |-> generate_data_hash(ModelDump(book_data)), id |-> id])

\* an upsert that gives the document a new identifier every time
UpsertByUrlFreshId(docs, book_data, fresh_id, utcnow) ==
    LET i == FindOne(docs, "source_url", book_data.source_url)
    IN  IF i # 0
        THEN UpdateOne(docs, "source_url", book_data.source_url,
                       BookDocument(book_data, fresh_id, utcnow))
        ELSE Append(docs, BookDocument(book_data, fresh_id, utcnow))

\* BookRepository.upsert_by_url: the collection afterwards
UpsertByUrl(docs, book_data, fresh_id, utcnow) ==
    LET i == FindOne(docs, "source_url", book_data.source_url)
    IN  IF i # 0
        THEN UpdateOne(docs, "source_url", book_data.source_url,
                       BookDocument(book_data, docs[i].id, utcnow))
        ELSE Append(docs, BookDocument(book_data, fresh_id, utcnow))

(***************************************************************************)
(* ChangeLogCreate and ChangeLogRepository                                 *)
(***************************************************************************)
\* pydantic validates the fields of ChangeLogCreate against their declared
\* types: changed_fields is declared Dict[str, Any], and a list is no dict
ChangeLogCreateIsValid(changed_fields) == changed_fields.type = "dict"

ChangeLogCreate(book_id, changed_fields, old_values, new_values, change_type) ==
    [book_id |-> book_id, changed_fields |-> changed_fields, old_values |-> old_values,
     new_values |-> new_values, change_type |-> change_type]

\* an insert that numbers the document by the book it belongs to
ChangeLogDocumentIdOfBook(change_log_data, id, utcnow) ==
    SetFields(change_log_data, [id |-> change_log_data.book_id, timestamp |-> utcnow])

\* ChangeLogRepository.create: the document that is inserted
ChangeLogDocument(change_log_data, id, utcnow) ==
    SetFields(change_log_data, [id |-> id, timestamp |-> utcnow])

(***************************************************************************)
(* ChangeDetector                                                          *)
(***************************************************************************)
\* the fields _detect_changes compares, in the order it compares them
TrackedFields == <<"name", "price_including_tax", "price_excluding_tax", "availability",
                   "rating", "description", "number_of_reviews">>

PriceFields == {"price_including_tax", "price_excluding_tax"}

\* a comparison of the prices without the tolerance
FieldDiffersExactly(field, old_book, new_book_data) ==
    old_book[field] # new_book_data[field]

\* one comparison of _detect_changes
FieldDiffers(field, old_book, new_book_data) ==
    IF field \in PriceFields
    THEN Abs(old_book[field] - new_book_data[field]) > PriceTolerance
    ELSE old_book[field] # new_book_data[field]

\* the keys of "changes", in insertion order
RECURSIVE ChangedUpTo(_, _, _)
ChangedUpTo(n, old_book, new_book_data) ==
    IF n = 0 THEN <<>>
    ELSE LET before == ChangedUpTo(n - 1, old_book, new_book_data)
         IN  IF FieldDiffers(TrackedFields[n], old_book, new_book_data)
             THEN Append(before, TrackedFields[n])
             ELSE before

Range(seq) == {seq[i] : i \in 1 .. Len(seq)}

\* _detect_changes: found is FALSE where the code returns None
DetectChanges(old_book, new_book_data) ==
    LET changed == ChangedUpTo(Len(TrackedFields), old_book, new_book_data)
    IN  [found |-> changed # <<>>,
         changed_fields |-> changed,
         old_values |-> [f \in Range(changed) |-> old_book[f]],
         new_values |-> [f \in Range(changed) |-> new_book_data[f]]]

\* a classification that looks at the availability first
DetermineChangeTypeAvailabilityFirst(changed_fields) ==
    IF "availability" \in Range(changed_fields) THEN "availability_change"
    ELSE IF "price_including_tax" \in Range(changed_fields)
            \/ "price_excluding_tax" \in Range(changed_fields)
    THEN "price_change"
    ELSE IF "name" \in Range(changed_fields) \/ "description" \in Range(changed_fields)
    THEN "metadata_change"
    ELSE IF "rating" \in Range(changed_fields) THEN "rating_change"
    ELSE "other_change"

\* _determine_change_type
DetermineChangeType(changed_fields) ==
    IF "price_including_tax" \in Range(changed_fields)
       \/ "price_excluding_tax" \in Range(changed_fields)
    THEN "price_change"
    ELSE IF "availability" \in Range(changed_fields) THEN "availability_change"
    ELSE IF "name" \in Range(changed_fields) \/ "description" \in Range(changed_fields)
    THEN "metadata_change"
    ELSE IF "rating" \in Range(changed_fields) THEN "rating_change"
    ELSE "other_change"

\* what process_book hands back: a ChangeLogCreate, None, or an exception
NoChangeLog == ChangeLogCreate(0, PyDict(<<>>), EmptyDict, EmptyDict, "")
Returned(change_log) == [kind |-> "change_log", change_log |-> change_log]
ReturnedNone == [kind |-> "None", change_log |-> NoChangeLog]
Raised == [kind |-> "ValidationError", change_log |-> NoChangeLog]

NoBook == [id |-> 0]
NoItem == [source_url |-> 0]
NoCall == [n |-> 0, item |-> NoItem, previous |-> NoItem, found |-> FALSE,
           existing |-> NoBook, utcnow |-> 0, logs_before |-> 0, result |-> ReturnedNone]

InitDetector ==
    /\ db_books = <<>>
    /\ db_change_logs = <<>>
    /\ now = 0
    /\ next_id = 1
    /\ call = NoCall

\* process_books is not called yet: book_i is 0
InitBatch ==
    /\ batch = <<>>
    /\ book_i = 0
    /\ change_logs = <<>>

\* "rate_limit_store: Dict[str, Dict[str, any]] = {}"
InitRateLimit ==
    /\ rate_limit_store = <<>>
    /\ responses = <<>>

(***************************************************************************)
(* The comparison of process_book, function by function: the fingerprint   *)
(* of the crawled item, _detect_changes, _determine_change_type, on every  *)
(* pair of a persisted book and a crawled item of the same source_url      *)
(***************************************************************************)
ComparedItems ==
    [source_url : {1}, name : {"Test Book", "Updated Book"}, description : Descriptions,
     category : Categories, price_including_tax : Prices,
     price_excluding_tax : {3998, 3198}, availability : Availabilities,
     number_of_reviews : {0, 1}, image_url : {None}, rating : {4, 5},
     raw_html : {None}]

NoChangeInfo == [found |-> FALSE, changed_fields |-> <<>>, old_values |-> EmptyDict,
                 new_values |-> EmptyDict]

\* no comparison is under way
NoComparison == [at |-> "none"]

\* process_book has found existing_book for new_book_data
Comparison(existing_book, new_book_data) ==
    [old_book |-> existing_book, new_book_data |-> new_book_data, at |-> "start",
     new_hash |-> <<>>, change_info |-> NoChangeInfo, change_type |-> ""]

InitCompare ==
    cmp \in {Comparison(BookDocument(old, 1, 0), new) :
                old \in ComparedItems, new \in ComparedItems}

\* new_hash = generate_data_hash(new_book_data.model_dump()), and the test
\* "existing_book.data_hash == new_hash"
NewHash ==
    /\ cmp.at = "start"
    /\ LET new_hash == generate_data_hash(ModelDump(cmp.new_book_data))
       IN  cmp' = [cmp EXCEPT !.new_hash = new_hash,
                              !.at = IF cmp.old_book.data_hash = new_hash
                                     THEN "no_change" ELSE "changes"]
    /\ UNCHANGED <<crawlerVars, detectorVars, batchVars, page, procs, apiVars>>

\* change_info = self._detect_changes(existing_book, new_book_data)
DetectChangesCall ==
    /\ cmp.at = "changes"
    /\ LET change_info == DetectChanges(cmp.old_book, cmp.new_book_data)
       IN  cmp' = [cmp EXCEPT !.change_info = change_info,
                              !.at = IF change_info.found THEN "detected" ELSE "None"]
    /\ UNCHANGED <<crawlerVars, detectorVars, batchVars, page, procs, apiVars>>

\* change_type = self._determine_change_type(change_info["changed_fields"])
DetermineChangeTypeCall ==
    /\ cmp.at = "detected"
    /\ cmp' = [cmp EXCEPT !.change_type = DetermineChangeType(cmp.change_info.changed_fields),
                          !.at = "classified"]
    /\ UNCHANGED <<crawlerVars, detectorVars, batchVars, page, procs, apiVars>>

NextCompare ==
    \/ NewHash
    \/ DetectChangesCall
    \/ DetermineChangeTypeCall

\* a new-book record that names a changed field, as test_detect_new_book expects
NewBookChangeLogMarked(book, new_book_data) ==
    ChangeLogCreate(book.id, PyDict(<<"new_book">>), EmptyDict, ModelDump(new_book_data),
                    "new_book")

\* the ChangeLogCreate of a new book
NewBookChangeLog(book, new_book_data) ==
    ChangeLogCreate(book.id, PyDict(<<>>), EmptyDict, ModelDump(new_book_data), "new_book")

\* a "no changes" branch that writes the crawled fields back
NoChangeUpdateAll(new_book_data) == ModelDump(new_book_data)

\* the update_data of the branch "no changes detected"
NoChangeUpdateData(new_book_data) == EmptyDict

\* an update of the crawled fields that leaves the stored fingerprint
ChangeUpdateDataStaleHash(new_book_data) == ModelDump(new_book_data)

\* the update_data of the branch "changes detected"
ChangeUpdateData(new_book_data) ==
    SetFields(ModelDump(new_book_data),
              [data_hash |-> generate_data_hash(ModelDump(new_book_data))])

\* ChangeLogCreate(...) and change_log_repo.create(change_log), to the return:
\* the constructor raises where the validation fails
CreateChangeLog(this, change_log, fresh_id, utcnow) ==
    IF ChangeLogCreateIsValid(change_log.changed_fields)
    THEN /\ db_change_logs' = Append(db_change_logs,
                                     ChangeLogDocument(change_log, fresh_id, utcnow))
         /\ next_id' = fresh_id + 1
         /\ call' = SetFields(this, [result |-> Returned(change_log)])
    ELSE /\ db_change_logs' = db_change_logs
         /\ next_id' = fresh_id
         /\ call' = SetFields(this, [result |-> Raised])

\* process_book(new_book_data); utcnow is the clock's reading during the call
ProcessBook(new_book_data, utcnow) ==
    LET i == FindOne(db_books, "source_url", new_book_data.source_url)
        existing_book == IF i = 0 THEN NoBook ELSE db_books[i]
        new_hash == generate_data_hash(ModelDump(new_book_data))
        this == [n |-> call.n + 1, item |-> new_book_data, previous |-> call.item,
                 found |-> i # 0, existing |-> existing_book, utcnow |-> utcnow,
                 logs_before |-> Len(db_change_logs)]
    IN  /\ call.n < MaxCalls
        /\ now' = utcnow
        /\ UNCHANGED crawlerVars
        /\ IF i = 0
           THEN \* new book
                LET stored == UpsertByUrl(db_books, new_book_data, next_id, utcnow)
                    book == stored[Len(stored)]
                    change_log == NewBookChangeLog(book, new_book_data)
                IN  /\ db_books' = stored
                    /\ CreateChangeLog(this, change_log, next_id + 1, utcnow)
           ELSE IF existing_book.data_hash = new_hash
           THEN \* no changes detected: still update crawl timestamp
                /\ db_books' = BookUpdate(db_books, existing_book.id,
                                          NoChangeUpdateData(new_book_data), utcnow)
                /\ call' = SetFields(this, [result |-> ReturnedNone])
                /\ UNCHANGED <<db_change_logs, next_id>>
           ELSE LET change_info == DetectChanges(existing_book, new_book_data) IN
                IF change_info.found
                THEN LET change_log ==
                            ChangeLogCreate(existing_book.id,
                                            PyList(change_info.changed_fields),
                                            change_info.old_values,
                                            change_info.new_values,
                                            DetermineChangeType(change_info.changed_fields))
                     IN  /\ db_books' = BookUpdate(db_books, existing_book.id,
                                                   ChangeUpdateData(new_book_data), utcnow)
                         /\ CreateChangeLog(this, change_log, next_id, utcnow)
                ELSE /\ call' = SetFields(this, [result |-> ReturnedNone])
                     /\ UNCHANGED <<db_books, db_change_logs, next_id>>

\* the readings of the clock never go back
Process ==
    /\ \E new_book_data \in BookCreate, utcnow \in {now, now + 1} :
           ProcessBook(new_book_data, utcnow)
    /\ UNCHANGED <<batchVars, cmp, page, procs, apiVars>>


(***************************************************************************)
(* process_books: the batch wrapper of process_book                        *)
(***************************************************************************)
\* the items of the batches
BatchItems ==
    {item \in BookCreate : item.description = None /\ item.price_including_tax # 3999}

\* the store before the batch: empty, or as one earlier process_book left it
StoreAfter(item) ==
    LET stored == UpsertByUrl(<<>>, item, 1, 0)
    IN  [books |-> stored,
         change_logs |-> <<ChangeLogDocument(NewBookChangeLog(stored[1], item), 2, 0)>>,
         next_id |-> 3]

EmptyStore == [books |-> <<>>, change_logs |-> <<>>, next_id |-> 1]

\* the detector on a store that is empty or holds one book
InitProcessBooks ==
    /\ \E store \in {EmptyStore} \cup {StoreAfter(item) : item \in BatchItems} :
          /\ db_books = store.books
          /\ db_change_logs = store.change_logs
          /\ next_id = store.next_id
    /\ now = 0
    /\ call = NoCall
    /\ InitBatch

\* process_books(books) is called: "change_logs = []", and the loop is entered
ProcessBooksCall ==
    /\ book_i = 0
    /\ batch' \in SeqsUpTo(BatchItems, MaxCalls)
    /\ book_i' = 1
    /\ change_logs' = <<>>
    /\ UNCHANGED <<crawlerVars, detectorVars, cmp, page, procs, apiVars>>

\* a batch that an exception ends
AfterExceptionReturn(i) == Len(batch) + 1

\* "except Exception as e: logger.error(...)": the loop goes on with the next item
AfterException(i) == i + 1

\* one turn of "for book_data in books", from the call of process_book to the
\* append or to the handler of the exception
ProcessBooks ==
    /\ book_i >= 1
    /\ book_i <= Len(batch)
    /\ \E utcnow \in {now, now + 1} : ProcessBook(batch[book_i], utcnow)
    /\ change_logs' = IF call'.result.kind = "change_log"
                      THEN Append(change_logs, call'.result.change_log)
                      ELSE change_logs
    /\ book_i' = IF call'.result.kind = "ValidationError"
                 THEN AfterException(book_i)
                 ELSE book_i + 1
    /\ UNCHANGED <<batch, cmp, page, procs, apiVars>>

NextProcessBooks ==
    \/ ProcessBooksCall
    \/ ProcessBooks

(***************************************************************************)
(* Re-crawls: process_book on a store that holds the book already          *)
(***************************************************************************)
\* the crawled versions of one book: the description, the number of reviews
\* and the availability vary
RecrawlItems ==
    {item \in ComparedItems :
        /\ item.name = "Test Book"
        /\ item.price_including_tax = 3998
        /\ item.price_excluding_tax = 3998
        /\ item.rating = 4}

\* an earlier crawl has stored the book
InitRecrawl ==
    /\ \E store \in {StoreAfter(item) : item \in RecrawlItems} :
          /\ db_books = store.books
          /\ db_change_logs = store.change_logs
          /\ next_id = store.next_id
    /\ now = 0
    /\ call = NoCall

\* process_book on a crawled version of the book
Recrawl ==
    /\ \E new_book_data \in RecrawlItems, utcnow \in {now, now + 1} :
           ProcessBook(new_book_data, utcnow)
    /\ UNCHANGED <<batchVars, cmp, page, procs, apiVars>>

NextRecrawl == Recrawl

(***************************************************************************)
(* The store under process_book and under upsert_by_url called directly    *)
(***************************************************************************)
\* what upsert_by_url hands back: the Book
ReturnedBook == [kind |-> "Book", change_log |-> NoChangeLog]

\* book_repo.upsert_by_url(book_data), with the uuid4 drawn where the URL is new
UpsertByUrlCall(book_data, utcnow) ==
    LET i == FindOne(db_books, "source_url", book_data.source_url)
    IN  /\ call.n < MaxCalls
        /\ now' = utcnow
        /\ db_books' = UpsertByUrl(db_books, book_data, next_id, utcnow)
        /\ next_id' = IF i = 0 THEN next_id + 1 ELSE next_id
        /\ call' = [n |-> call.n + 1, item |-> book_data, previous |-> call.item,
                    found |-> i # 0,
                    existing |-> IF i = 0 THEN NoBook ELSE db_books[i],
                    utcnow |-> utcnow, logs_before |-> Len(db_change_logs),
                    result |-> ReturnedBook]
        /\ UNCHANGED <<db_change_logs, crawlerVars>>

StoreUpsert ==
    /\ \E book_data \in BatchItems, utcnow \in {now, now + 1} :
           UpsertByUrlCall(book_data, utcnow)
    /\ UNCHANGED <<batchVars, cmp, page, procs, apiVars>>

StoreProcess ==
    /\ \E new_book_data \in BatchItems, utcnow \in {now, now + 1} :
           ProcessBook(new_book_data, utcnow)
    /\ UNCHANGED <<batchVars, cmp, page, procs, apiVars>>

(***************************************************************************)
(* The cancellation of the task that runs crawl_all                        *)
(***************************************************************************)
\* crawl_all waits in "await": for the main page, for a listing page, or in gather
AtAwait == pc \in {"get_all_categories", "fetch_page", "gather"}

\* CancelledError is raised in a task that has not ended
Cancelled(r) ==
    IF r.at \in {"none", "done"} THEN r ELSE [r EXCEPT !.at = "cancelled"]

\* task.cancel() on the run, as asyncio.run and a timeout around it do: gather
\* cancels its children, and CancelledError, which no "except Exception" catches,
\* leaves every "async with self.semaphore" and unwinds crawl_category and
\* crawl_all, whose lists go with their frames: "return all_books" is not reached
Cancel ==
    /\ AtAwait
    /\ pc' = "cancelled"
    /\ tasks' = [t \in TaskIds |-> Cancelled(tasks[t])]
    /\ semaphore' = MaxConcurrent
    /\ books' = <<>>
    /\ all_books' = <<>>
    /\ UNCHANGED <<max_attempts, visited_urls, n_categories, cat, current_url,
                   dispatched, redispatched,
                   parsed, detectorVars, batchVars, cmp, page, procs, apiVars>>

NextCancel ==
    \/ NextCrawler
    \/ Cancel

(***************************************************************************)
(* crawl_all called again on the same Crawler                              *)
(***************************************************************************)
\* the run is over, and crawl_all is called once more: the object keeps its
\* fields (crawl_all assigns none of them), and the bookkeeping starts again
CrawlAllAgain ==
    /\ pc = "done"
    /\ pc' = "start"
    /\ n_categories' = 0
    /\ cat' = 1
    /\ all_books' = <<>>
    /\ dispatched' = {}
    /\ redispatched' = {}
    /\ parsed' = [u \in Urls |-> 0]
    /\ UNCHANGED <<max_attempts, semaphore, visited_urls, current_url, books, tasks,
                   detectorVars, batchVars, cmp, page, procs, apiVars>>

NextRuns ==
    \/ NextCrawler
    \/ CrawlAllAgain

(***************************************************************************)
(* rating_to_int and the prices and the rating of _parse_book_page. A text *)
(* (a Python str) is the sequence of its characters.                       *)
(***************************************************************************)
\* str.lower(), on the letters of the rating words
LowerCase ==
    ("Z" :> "z") @@ ("E" :> "e") @@ ("R" :> "r") @@ ("O" :> "o") @@ ("N" :> "n") @@
    ("T" :> "t") @@ ("W" :> "w") @@ ("H" :> "h") @@ ("F" :> "f") @@ ("U" :> "u") @@
    ("I" :> "i") @@ ("V" :> "v")

Lower(text) ==
    [i \in 1 .. Len(text) |->
        IF text[i] \in DOMAIN LowerCase THEN LowerCase[text[i]] ELSE text[i]]

Whitespace == {" "}

\* str.strip()
RECURSIVE LStrip(_)
LStrip(text) ==
    IF text # <<>> /\ Head(text) \in Whitespace THEN LStrip(Tail(text)) ELSE text

RECURSIVE RStrip(_)
RStrip(text) ==
    IF text # <<>> /\ text[Len(text)] \in Whitespace
    THEN RStrip(SubSeq(text, 1, Len(text) - 1))
    ELSE text

Strip(text) == RStrip(LStrip(text))

\* "key in rating_text": key is a substring of the text
Contains(key, text) ==
    \E i \in 0 .. (Len(text) - Len(key)) : SubSeq(text, i + 1, i + Len(key)) = key

\* the dict of rating_to_int, in the order of its keys
rating_map ==
    << [key |-> <<"z", "e", "r", "o">>, value |-> 0],
       [key |-> <<"o", "n", "e">>, value |-> 1],
       [key |-> <<"t", "w", "o">>, value |-> 2],
       [key |-> <<"t", "h", "r", "e", "e">>, value |-> 3],
       [key |-> <<"f", "o", "u", "r">>, value |-> 4],
       [key |-> <<"f", "i", "v", "e">>, value |-> 5] >>

\* "for key, value in rating_map.items(): if key in rating_text: return value",
\* from the n-th key on, and "return 0" after the loop
RECURSIVE RatingFrom(_, _)
RatingFrom(n, rating_text) ==
    IF n > Len(rating_map) THEN 0
    ELSE IF Contains(rating_map[n].key, rating_text) THEN rating_map[n].value
    ELSE RatingFrom(n + 1, rating_text)

rating_to_int(rating_text) == RatingFrom(1, Strip(Lower(rating_text)))

\* the texts rating_to_int is called with: the rating words in lower case,
\* capitalized and in upper case, and texts that are no rating word, each also
\* with a blank before it and after it
Upper(text) ==
    [i \in 1 .. Len(text) |->
        IF \E c \in DOMAIN LowerCase : LowerCase[c] = text[i]
        THEN CHOOSE c \in DOMAIN LowerCase : LowerCase[c] = text[i]
        ELSE text[i]]

Capitalized(text) == <<Upper(text)[1]>> \o Tail(text)

RatingWords == {rating_map[n].key : n \in 1 .. Len(rating_map)}

OtherTexts == {<<>>, <<"u", "n", "k", "n", "o", "w", "n">>, <<"n", "o", "n", "e">>,
               <<"s", "i", "x">>}

RatingTexts ==
    {before \o text \o after :
        before \in {<<>>, <<" ">>}, after \in {<<>>, <<" ">>},
        text \in RatingWords \cup {Capitalized(w) : w \in RatingWords}
                    \cup {Upper(w) : w \in RatingWords} \cup OtherTexts}

\* the characters of the price cells, and the cells
PriceChars == {"£", ",", "-", ".", "5"}

PriceTexts == SeqsUpTo(PriceChars, MaxPriceLen)

\* td_text.replace('£', '').replace('€', '').replace('$', '').replace(',', '')
WithoutCurrency(td_text) ==
    SelectSeq(td_text, LAMBDA c : c \notin {"£", "€", "$", ","})

DigitValue ==
    ("0" :> 0) @@ ("1" :> 1) @@ ("2" :> 2) @@ ("3" :> 3) @@ ("4" :> 4) @@
    ("5" :> 5) @@ ("6" :> 6) @@ ("7" :> 7) @@ ("8" :> 8) @@ ("9" :> 9)

\* float(text), for texts of digits, signs and points: the text after the sign
Unsigned(text) ==
    IF text # <<>> /\ Head(text) \in {"+", "-"} THEN Tail(text) ELSE text

\* float(text) returns: a sign, then digits with one point at the most, one digit
\* at the least; on every other text of these characters it raises ValueError
FloatParses(text) ==
    LET body == Unsigned(text)
        points == {i \in 1 .. Len(body) : body[i] = "."}
    IN  /\ Cardinality(points) <= 1
        /\ \A i \in 1 .. Len(body) : i \in points \/ body[i] \in DOMAIN DigitValue
        /\ \E i \in 1 .. Len(body) : body[i] \in DOMAIN DigitValue

RECURSIVE NumberOf(_)
NumberOf(digits) ==
    IF digits = <<>> THEN 0
    ELSE NumberOf(SubSeq(digits, 1, Len(digits) - 1)) * 10 + DigitValue[digits[Len(digits)]]

RECURSIVE PowerOfTen(_)
PowerOfTen(n) == IF n = 0 THEN 1 ELSE 10 * PowerOfTen(n - 1)

\* the float as the fraction num / den, den a power of ten
Float(text) ==
    LET body == Unsigned(text)
        digits == SelectSeq(body, LAMBDA c : c # ".")
        decimals == IF \E i \in 1 .. Len(body) : body[i] = "."
                    THEN Len(body) - (CHOOSE i \in 1 .. Len(body) : body[i] = ".")
                    ELSE 0
        sign == IF text # <<>> /\ Head(text) = "-" THEN -1 ELSE 1
    IN  [num |-> sign * NumberOf(digits), den |-> PowerOfTen(decimals)]

ZeroFloat == [num |-> 0, den |-> 1]

\* the table has no row of the price
NoCell == <<None>>

\* "try: price = float(...) except ValueError: pass": the price of a row; without
\* the row, and after a ValueError, the price stays 0.0
ParsePrice(td_text) ==
    IF td_text = NoCell THEN ZeroFloat
    ELSE IF FloatParses(WithoutCurrency(td_text)) THEN Float(WithoutCurrency(td_text))
    ELSE ZeroFloat

\* the class token 'star-rating'
StarRating == <<"s", "t", "a", "r", "-", "r", "a", "t", "i", "n", "g">>

\* "rating = 0; if rating_elem: for cls in rating_class: if cls != 'star-rating':
\* rating = rating_to_int(cls); break"; rating_class is the empty list also where
\* the page has no p.star-rating: the rating stays 0
ParseRating(rating_class) ==
    LET others == SelectSeq(rating_class, LAMBDA cls : cls # StarRating)
    IN  IF others = <<>> THEN 0 ELSE rating_to_int(others[1])

\* the cells of "Price (excl. tax)": no such row, or one of two cells
ExclTexts == {NoCell, <<"£", "5">>, <<"-", "5">>}

\* the class attributes of p.star-rating
RatingClasses ==
    {<<>>, <<StarRating>>} \cup
    {<<StarRating, Capitalized(w)>> : w \in RatingWords} \cup
    {<<Capitalized(w), StarRating>> : w \in RatingWords}

\* the detail pages: what _parse_book_page reads of them
DetailPages ==
    [td_including_tax : PriceTexts, td_excluding_tax : ExclTexts,
     rating_class : RatingClasses]

NoPage == [at |-> "none"]

\* a text is about to be converted, or a detail page is about to be parsed
InitParse ==
    page \in {[at |-> "rating_text", rating_text |-> text] : text \in RatingTexts}
             \cup {[at |-> "html", html |-> html] : html \in DetailPages}

\* rating_to_int(rating_text)
RatingToIntCall ==
    /\ page.at = "rating_text"
    /\ page' = [at |-> "rating", rating_text |-> page.rating_text,
                rating |-> rating_to_int(page.rating_text)]
    /\ UNCHANGED <<crawlerVars, detectorVars, batchVars, cmp, procs, apiVars>>

\* _parse_book_page(html, url): the prices and the rating of the BookCreate
ParseBookPage ==
    /\ page.at = "html"
    /\ page' = [at |-> "BookCreate", html |-> page.html,
                price_including_tax |-> ParsePrice(page.html.td_including_tax),
                price_excluding_tax |-> ParsePrice(page.html.td_excluding_tax),
                rating |-> ParseRating(page.html.rating_class)]
    /\ UNCHANGED <<crawlerVars, detectorVars, batchVars, cmp, procs, apiVars>>

NextParse ==
    \/ RatingToIntCall
    \/ ParseBookPage

(***************************************************************************)
(* The repository under create, upsert_by_url and process_book             *)
(***************************************************************************)
\* BookRepository.create: the collection afterwards; the document is inserted
\* whatever the collection holds
BookCreated(docs, book_data, fresh_id, utcnow) ==
    Append(docs, BookDocument(book_data, fresh_id, utcnow))

\* book_repo.create(book_data)
CreateCall(book_data, utcnow) ==
    LET i == FindOne(db_books, "source_url", book_data.source_url)
    IN  /\ call.n < MaxCalls
        /\ now' = utcnow
        /\ db_books' = BookCreated(db_books, book_data, next_id, utcnow)
        /\ next_id' = next_id + 1
        /\ call' = [n |-> call.n + 1, item |-> book_data, previous |-> call.item,
                    found |-> i # 0,
                    existing |-> IF i = 0 THEN NoBook ELSE db_books[i],
                    utcnow |-> utcnow, logs_before |-> Len(db_change_logs),
                    result |-> ReturnedBook]
        /\ UNCHANGED <<db_change_logs, crawlerVars>>

StoreCreate ==
    /\ \E book_data \in BatchItems, utcnow \in {now, now + 1} :
           CreateCall(book_data, utcnow)
    /\ UNCHANGED <<batchVars, cmp, page, procs, apiVars>>

(***************************************************************************)
(* rate_limit_middleware                                                   *)
(***************************************************************************)
\* the client ids: API keys and hosts
Clients == {"key", "host"}

\* a limit that is passed only by a count above it
LimitExceededAbove(count) == count > rate_limit_per_hour

\* "if client_data["count"] >= limit"
LimitExceeded(count) == count >= rate_limit_per_hour

\* rate_limit_store[client_id], after "if client_id not in rate_limit_store"
ClientData(client_id) ==
    IF client_id \in DOMAIN rate_limit_store
    THEN rate_limit_store[client_id]
    ELSE [requests |-> <<>>, count |-> 0]

\* the store with the entry of the client set
StoreWith(client_id, client_data) ==
    [c \in DOMAIN rate_limit_store \cup {client_id} |->
        IF c = client_id THEN client_data ELSE rate_limit_store[c]]

\* rate_limit_middleware for a request of client_id, up to "await call_next" or
\* to the HTTPException; utcnow is the clock's reading
RateLimitMiddleware(client_id, utcnow) ==
    LET hour_ago == utcnow - Hour
        requests == SelectSeq(ClientData(client_id).requests,
                              LAMBDA req_time : req_time > hour_ago)
        count == Len(requests)
    IN  /\ Len(responses) < MaxRequests
        /\ now' = utcnow
        /\ IF LimitExceeded(count)
           THEN /\ rate_limit_store' =
                      StoreWith(client_id, [requests |-> requests, count |-> count])
                /\ responses' = Append(responses, [client_id |-> client_id, now |-> utcnow,
                                                   status |-> 429])
           ELSE /\ rate_limit_store' =
                      StoreWith(client_id, [requests |-> Append(requests, utcnow),
                                            count |-> count + 1])
                /\ responses' = Append(responses, [client_id |-> client_id, now |-> utcnow,
                                                   status |-> 200])
        /\ UNCHANGED <<db_books, db_change_logs, next_id, call>>
        /\ UNCHANGED <<crawlerVars, batchVars, cmp, page, procs>>

\* a request arrives; the readings of the clock never go back
Request ==
    \E client_id \in Clients, utcnow \in {now, now + 1} :
        RateLimitMiddleware(client_id, utcnow)

(***************************************************************************)
(* process_book calls that run beside one another: every call is cut at    *)
(* its awaits of the database, and a step is one operation of the database *)
(* with the code that follows it up to the next one. The clock ticks       *)
(* between the calls' entries; within a call it is read as it stands.      *)
(***************************************************************************)
\* the calls: one for each source_url
Procs == ItemUrls

\* items that are all of the first source_url
ParallelItemsOfOneUrl(p) == {item \in BatchItems : item.source_url = 1}

\* the items the call p may be given: no two calls share a source_url
ParallelItems(p) == {item \in BatchItems : item.source_url = p}

\* the book of the source_url as an earlier crawl stored it, and its record
StoredItem(url) == CHOOSE item \in BatchItems :
                       /\ item.source_url = url
                       /\ item.price_including_tax = 3998
                       /\ item.availability = "In stock"

RECURSIVE StoredBooks(_, _)
StoredBooks(n, urls) ==
    IF n = 0 THEN <<>>
    ELSE IF n \in urls
    THEN Append(StoredBooks(n - 1, urls), BookDocument(StoredItem(n), n, 0))
    ELSE StoredBooks(n - 1, urls)

RECURSIVE StoredChangeLogs(_, _)
StoredChangeLogs(n, urls) ==
    IF n = 0 THEN <<>>
    ELSE IF n \in urls
    THEN Append(StoredChangeLogs(n - 1, urls),
                ChangeLogDocument(NewBookChangeLog([id |-> n], StoredItem(n)),
                                  NumItemUrls + n, 0))
    ELSE StoredChangeLogs(n - 1, urls)

\* the store before the calls: it holds the books of some of the source_urls
StoreOfUrls(urls) ==
    [books |-> StoredBooks(NumItemUrls, urls),
     change_logs |-> StoredChangeLogs(NumItemUrls, urls),
     next_id |-> 2 * NumItemUrls + 1]

\* a call that is not entered yet
NoProc == [at |-> "start", item |-> NoItem, existing |-> NoBook, doc |-> EmptyDict,
           change_log |-> EmptyDict, result |-> ReturnedNone]

InitParallel ==
    /\ \E urls \in SUBSET ItemUrls :
          /\ procs = [store |-> StoreOfUrls(urls), proc |-> [p \in Procs |-> NoProc]]
          /\ db_books = StoreOfUrls(urls).books
          /\ db_change_logs = StoreOfUrls(urls).change_logs
          /\ next_id = StoreOfUrls(urls).next_id
    /\ now = 0
    /\ call = NoCall

\* process_book is entered and "await self.book_repo.get_by_url" answers; the
\* call goes on to its next operation of the database: the fingerprints are
\* compared, _detect_changes is called and update() reads the clock on the way
ProcGetByUrl(p) ==
    /\ procs.proc[p].at = "start"
    /\ \E new_book_data \in ParallelItems(p), utcnow \in {now, now + 1} :
          LET i == FindOne(db_books, "source_url", new_book_data.source_url)
              existing_book == IF i = 0 THEN NoBook ELSE db_books[i]
              new_hash == generate_data_hash(ModelDump(new_book_data))
              change_info == DetectChanges(existing_book, new_book_data)
              this == [NoProc EXCEPT !.item = new_book_data, !.existing = existing_book]
          IN  IF i = 0
              THEN /\ procs' = [procs EXCEPT !.proc[p] =
                                   [this EXCEPT !.at = "upsert_by_url"]]
                   /\ UNCHANGED now
              ELSE IF existing_book.data_hash = new_hash
              THEN /\ procs' = [procs EXCEPT !.proc[p] =
                                   [this EXCEPT !.at = "update",
                                                !.doc = SetFields(NoChangeUpdateData(new_book_data),
                                                                  [crawl_timestamp |-> utcnow])]]
                   /\ now' = utcnow
              ELSE IF change_info.found
              THEN /\ procs' = [procs EXCEPT !.proc[p] =
                                   [this EXCEPT !.at = "update",
                                                !.doc = SetFields(ChangeUpdateData(new_book_data),
                                                                  [crawl_timestamp |-> utcnow])]]
                   /\ now' = utcnow
              ELSE /\ procs' = [procs EXCEPT !.proc[p] = [this EXCEPT !.at = "done"]]
                   /\ UNCHANGED now
    /\ UNCHANGED <<db_books, db_change_logs, next_id>>
    /\ UNCHANGED <<crawlerVars, batchVars, cmp, page, apiVars, call>>

\* the get_by_url of upsert_by_url answers; book_dict is built, with the id of
\* the book that is there or with a uuid4
ProcUpsertGetByUrl(p) ==
    LET this == procs.proc[p]
        i == FindOne(db_books, "source_url", this.item.source_url)
    IN  /\ this.at = "upsert_by_url"
        /\ \E utcnow \in {now} :
              /\ now' = utcnow
              /\ procs' = [procs EXCEPT !.proc[p] =
                              [this EXCEPT !.at = IF i # 0 THEN "update_one" ELSE "insert_one",
                                           !.doc = BookDocument(this.item,
                                                                IF i # 0 THEN db_books[i].id
                                                                ELSE next_id,
                                                                utcnow)]]
        /\ next_id' = IF i # 0 THEN next_id ELSE next_id + 1
        /\ UNCHANGED <<db_books, db_change_logs>>
        /\ UNCHANGED <<crawlerVars, batchVars, cmp, page, apiVars, call>>

\* the write of upsert_by_url is done; ChangeLogCreate is constructed for the
\* new book, and change_log_repo.create builds change_dict with a uuid4
ProcUpsertWrite(p) ==
    LET this == procs.proc[p]
        change_log == NewBookChangeLog(this.doc, this.item)
    IN  /\ this.at \in {"update_one", "insert_one"}
        /\ db_books' = IF this.at = "update_one"
                       THEN UpdateOne(db_books, "source_url", this.item.source_url, this.doc)
                       ELSE Append(db_books, this.doc)
        /\ \E utcnow \in {now} :
              /\ now' = utcnow
              /\ procs' = [procs EXCEPT !.proc[p] =
                              [this EXCEPT !.at = "create",
                                           !.change_log =
                                               ChangeLogDocument(change_log, next_id, utcnow),
                                           !.result = Returned(change_log)]]
        /\ next_id' = next_id + 1
        /\ UNCHANGED db_change_logs
        /\ UNCHANGED <<crawlerVars, batchVars, cmp, page, apiVars, call>>

\* the update_one of BookRepository.update is done, and its get_by_id; in the
\* branch of the changes ChangeLogCreate is constructed, which raises where the
\* validation fails, and change_log_repo.create builds change_dict
ProcUpdate(p) ==
    LET this == procs.proc[p]
        change_info == DetectChanges(this.existing, this.item)
        change_log == ChangeLogCreate(this.existing.id,
                                      PyList(change_info.changed_fields),
                                      change_info.old_values,
                                      change_info.new_values,
                                      DetermineChangeType(change_info.changed_fields))
    IN  /\ this.at = "update"
        /\ db_books' = UpdateOne(db_books, "id", this.existing.id, this.doc)
        /\ IF this.existing.data_hash = generate_data_hash(ModelDump(this.item))
           THEN /\ procs' = [procs EXCEPT !.proc[p] = [this EXCEPT !.at = "done"]]
                /\ UNCHANGED <<now, next_id>>
           ELSE IF ChangeLogCreateIsValid(change_log.changed_fields)
           THEN \E utcnow \in {now} :
                   /\ now' = utcnow
                   /\ procs' = [procs EXCEPT !.proc[p] =
                                   [this EXCEPT !.at = "create",
                                                !.change_log =
                                                    ChangeLogDocument(change_log, next_id, utcnow),
                                                !.result = Returned(change_log)]]
                   /\ next_id' = next_id + 1
           ELSE /\ procs' = [procs EXCEPT !.proc[p] =
                                [this EXCEPT !.at = "done", !.result = Raised]]
                /\ UNCHANGED <<now, next_id>>
        /\ UNCHANGED db_change_logs
        /\ UNCHANGED <<crawlerVars, batchVars, cmp, page, apiVars, call>>

\* the insert_one of change_log_repo.create is done, and process_book returns
ProcCreate(p) ==
    LET this == procs.proc[p]
    IN  /\ this.at = "create"
        /\ db_change_logs' = Append(db_change_logs, this.change_log)
        /\ procs' = [procs EXCEPT !.proc[p] = [this EXCEPT !.at = "done"]]
        /\ UNCHANGED <<db_books, now, next_id>>
        /\ UNCHANGED <<crawlerVars, batchVars, cmp, page, apiVars, call>>

NextParallel ==
    \/ \E p \in Procs : ProcGetByUrl(p)
    \/ \E p \in Procs : ProcUpsertGetByUrl(p)
    \/ \E p \in Procs : ProcUpsertWrite(p)
    \/ \E p \in Procs : ProcUpdate(p)
    \/ \E p \in Procs : ProcCreate(p)

\* process_book from its call to its return with no other call beside it: the
\* store afterwards
ProcessBookAlone(store, new_book_data, utcnow) ==
    LET i == FindOne(store.books, "source_url", new_book_data.source_url)
        existing_book == IF i = 0 THEN NoBook ELSE store.books[i]
        new_hash == generate_data_hash(ModelDump(new_book_data))
        change_info == DetectChanges(existing_book, new_book_data)
    IN  IF i = 0
        THEN LET stored == UpsertByUrl(store.books, new_book_data, store.next_id, utcnow)
                 change_log == NewBookChangeLog(stored[Len(stored)], new_book_data)
             IN  [books |-> stored,
                  change_logs |-> Append(store.change_logs,
                                         ChangeLogDocument(change_log, store.next_id + 1,
                                                           utcnow)),
                  next_id |-> store.next_id + 2]
        ELSE IF existing_book.data_hash = new_hash
        THEN [store EXCEPT !.books = BookUpdate(store.books, existing_book.id,
                                                NoChangeUpdateData(new_book_data), utcnow)]
        ELSE IF change_info.found
        THEN LET change_log == ChangeLogCreate(existing_book.id,
                                               PyList(change_info.changed_fields),
                                               change_info.old_values,
                                               change_info.new_values,
                                               DetermineChangeType(change_info.changed_fields))
                 updated == BookUpdate(store.books, existing_book.id,
                                       ChangeUpdateData(new_book_data), utcnow)
             IN  IF ChangeLogCreateIsValid(change_log.changed_fields)
                 THEN [books |-> updated,
                       change_logs |-> Append(store.change_logs,
                                              ChangeLogDocument(change_log, store.next_id,
                                                                utcnow)),
                       next_id |-> store.next_id + 1]
                 ELSE [store EXCEPT !.books = updated]
        ELSE store

(***************************************************************************)
(* The crawler's claims                                                    *)
(***************************************************************************)
InFlight == {t \in TaskIds : tasks[t].at = "inflight"}

InCategory == pc \in {"while", "fetch_page", "gather"}

\* C1: within one crawl_all run no URL is handed to _fetch_with_retry more than
\* once, whatever its role (root, listing page, detail page).
C1_NoUrlDispatchedTwice == redispatched = {}

\* C2: crawl_category terminates on every finite site: a traversal whose current
\* listing URL is already in visited_urls stops there without another fetch, and
\* every crawl_category call returns.
C2_CrawlCategoryTerminates ==
    /\ [][(pc = "while" /\ current_url \in visited_urls)
            => (pc' = "for_category" /\ dispatched' = dispatched /\ tasks' = tasks)]_vars
    /\ (InCategory ~> ~InCategory)

\* C2, its case: a page of the category was crawled and its next-page link leads
\* to a listing URL that is already visited
C2_Witness ==
    pc = "while" /\ current_url \in visited_urls /\ Len(books) > 0

\* C3: at every moment the number of requests in flight is at most max_concurrent.
C3_BoundedInFlight == Cardinality(InFlight) <= MaxConcurrent

\* C3, its case: the gate is full and another task is suspended at it
C3_Witness ==
    /\ Cardinality(InFlight) = MaxConcurrent
    /\ \E t \in TaskIds : tasks[t].at = "acquire"

\* C4: a fetch never makes more than max_attempts requests, and a fetch whose
\* every attempt failed with a retryable error has made exactly max_attempts
\* requests when it returns, and returns the failure result (None).
C4_RetryBound ==
    \A t \in TaskIds :
        /\ tasks[t].requests <= max_attempts
        /\ (tasks[t].at = "returned" /\ tasks[t].last \in Retryable)
             => (tasks[t].requests = max_attempts /\ tasks[t].html = "none")

\* C4, its case: a fetch that was retried has run out of attempts
C4_Witness ==
    \E t \in TaskIds :
        /\ tasks[t].at = "returned"
        /\ tasks[t].last \in Retryable
        /\ tasks[t].requests = max_attempts
        /\ max_attempts > 1

\* C5: a 404 ends the fetch at once with the failure result: the attempt that saw
\* it is the last request of the fetch, and no backoff delay follows it (the
\* delays taken are those of the attempts before it).
C5_PermanentMiss ==
    \A t \in TaskIds :
        tasks[t].last = "404"
          => /\ tasks[t].at = "returned"
             /\ tasks[t].html = "none"
             /\ tasks[t].requests = tasks[t].attempt + 1
             /\ tasks[t].sleeps = tasks[t].attempt

\* C5, its case: a 404 while attempts are left
C5_Witness ==
    \E t \in TaskIds : tasks[t].last = "404" /\ tasks[t].requests < max_attempts

\* the task has ended a fetch without a page: a 404, or no attempt left
FetchFailed(t) == tasks[t].at = "returned" /\ tasks[t].html = "none"

\* C13: a fetch that ends in a 404 or in retry exhaustion, or a page that does not
\* parse, never aborts the run: a detail page without a book changes nothing but
\* its own task, a failed listing page ends its category with the books it has,
\* the gather waits for every detail task of the page, every category is handed
\* to crawl_category, and crawl_all returns.
C13_FailuresDoNotAbort ==
    /\ [][\A t \in BookTasks :
            (tasks[t].at = "returned" /\ tasks'[t].at = "done" /\ tasks'[t].result = NoUrl)
              => /\ pc' = pc /\ cat' = cat
                 /\ books' = books /\ all_books' = all_books
                 /\ \A s \in TaskIds \ {t} : tasks'[s] = tasks[s]]_vars
    /\ [][(pc = "fetch_page" /\ FetchFailed(0) /\ pc' # pc)
            => (pc' = "for_category" /\ cat' = cat + 1
                /\ all_books' = all_books \o books)]_vars
    /\ [][(pc = "gather" /\ pc' # pc)
            => (pc' = "while" /\ \A t \in BookTasks : tasks[t].at \in {"none", "done"})]_vars
    /\ [](pc = "done" => cat = n_categories + 1)
    /\ <>(pc = "done")

\* C13, its case: a detail fetch has run out of attempts, the next detail page of
\* the listing is being fetched, and another category is to come
C13_Witness ==
    /\ pc = "gather"
    /\ cat < n_categories
    /\ FetchFailed(1)
    /\ tasks[1].last \in Retryable
    /\ tasks[2].at = "inflight"

\* C14: when the main page cannot be fetched or has no category links, the run
\* is aborted with a run-level failure: crawl_all returns a result only when the
\* discovery found a category.
C14_RootFailureAborts == pc = "done" => n_categories > 0

\* C16: of the crawl_book tasks of one listing page, at most one fetches a given
\* URL: when a task passes the check and goes on to its fetch, no other task of
\* the page with the same URL has passed the check before it.
C16_DetailFetchedOncePerPage ==
    [][\A t \in BookTasks :
          (tasks[t].at = "start" /\ tasks'[t].at = "acquire")
            => \A s \in BookTasks \ {t} :
                  tasks[s].url = tasks[t].url => tasks[s].at = "start"]_vars

\* C16, its case: the page links one URL twice; the first task fetches it, the
\* second has returned None at the check
C16_Witness ==
    /\ pc = "gather"
    /\ tasks[1].url = tasks[2].url
    /\ tasks[1].at = "inflight"
    /\ tasks[2].at = "done"
    /\ tasks[2].result = NoUrl

\* waiting out a backoff delay
Sleeping(t) == tasks[t].at \in {"sleep", "sleep_in_gate"}

\* C17: a task that waits out its backoff delay holds no slot of the semaphore:
\* while a task sleeps, the slots taken are those of the requests in flight.
C17_BackoffHoldsNoSlot ==
    \A t \in TaskIds :
        Sleeping(t) => semaphore + Cardinality(InFlight) = MaxConcurrent

\* how often url occurs in the list
Count(url, list) == Cardinality({i \in 1 .. Len(list) : list[i] = url})

\* C18: the books of the run are the detail pages that were fetched and parsed:
\* nothing is collected that was not parsed, no page is parsed twice, and when
\* crawl_all returns each parsed page is in all_books exactly once.
C18_ResultIsParsedPages ==
    /\ \A list \in {all_books, books} :
          \A i \in 1 .. Len(list) : list[i] \in Urls /\ parsed[list[i]] >= 1
    /\ \A u \in Urls : parsed[u] <= 1
    /\ pc = "done" => \A u \in Urls : Count(u, all_books) = parsed[u]

\* C18, its case: the run is over; one detail page was parsed and another detail
\* page of the same listing was not
C18_Witness ==
    /\ pc = "done"
    /\ Len(all_books) = 1
    /\ Cardinality(dispatched) = NumUrls
    /\ n_categories = 1

\* C19: every detail page that ends as a permanent miss, with its retries
\* exhausted or as a parse failure is counted by the run: the step that ends it
\* changes what the run accumulates for its result.
C19_FailuresCounted ==
    [][\A t \in BookTasks :
          (tasks[t].at = "returned" /\ tasks'[t].at = "done" /\ tasks'[t].result = NoUrl)
            => <<books, all_books>>' # <<books, all_books>>]_vars

(***************************************************************************)
(* The change detector's claims                                            *)
(***************************************************************************)
\* the persisted book of the last call's source_url
Persisted == db_books[FindOne(db_books, "source_url", call.item.source_url)]

LastChangeLog == db_change_logs[Len(db_change_logs)]

\* the last call found a persisted book that differs in a tracked field
ActuallyChanged ==
    /\ call.found
    /\ call.existing.data_hash # generate_data_hash(call.item)
    /\ DetectChanges(call.existing, call.item).found

\* C6: processing the same item twice in a row yields a ChangeRecord on the first
\* call when the item is new or actually changed, and on the second call returns
\* no ChangeRecord and appends nothing to the change log.
C6_Idempotent ==
    /\ (call.n >= 1 /\ (~call.found \/ ActuallyChanged))
         => call.result.kind = "change_log"
    /\ (call.n >= 2 /\ call.item = call.previous)
         => (call.result.kind = "None" /\ Len(db_change_logs) = call.logs_before)

C8_NoChangeFrame ==
    [][(/\ call'.n = call.n + 1
        /\ call'.found
        /\ call'.existing.data_hash = generate_data_hash(call'.item))
         => /\ call'.result.kind = "None"
            /\ db_change_logs' = db_change_logs
            /\ LET i == FindOne(db_books, "source_url", call'.item.source_url)
               IN  db_books' = [db_books EXCEPT ![i].crawl_timestamp = call'.utcnow]]_vars

\* C8, its case: a re-crawl with the stored fingerprint and another description,
\* at a later time: the timestamp moved, the description did not
C8_Witness ==
    /\ call.found
    /\ call.existing.data_hash = generate_data_hash(call.item)
    /\ call.result.kind = "None"
    /\ call.item.description # call.existing.description
    /\ Persisted.description = call.existing.description
    /\ call.existing.crawl_timestamp # call.utcnow
    /\ Persisted.crawl_timestamp = call.utcnow

\* C9: when a persisted item is re-crawled with a price_including_tax more than
\* 0.01 away from the persisted one, process_book returns a ChangeRecord with
\* change_type price_change whose changed fields include price_including_tax,
\* with the persisted price in old_values and the new price in new_values.
C9_PriceChange ==
    (/\ call.found
     /\ Abs(call.existing.price_including_tax - call.item.price_including_tax)
          > PriceTolerance)
      => /\ call.result.kind = "change_log"
         /\ call.result.change_log.change_type = "price_change"
         /\ "price_including_tax" \in Range(call.result.change_log.changed_fields.items)
         /\ call.result.change_log.old_values["price_including_tax"]
              = call.existing.price_including_tax
         /\ call.result.change_log.new_values["price_including_tax"]
              = call.item.price_including_tax

\* C10: whenever process_book finds a persisted record whose stored fingerprint
\* differs from the item's, the persisted record carries the item's fingerprint
\* and a refreshed timestamp when the call is over, and exactly one ChangeRecord
\* for it has been appended to the change log.
C10_MismatchIsPersistedAndLogged ==
    (call.found /\ call.existing.data_hash # generate_data_hash(call.item))
      => /\ Persisted.data_hash = generate_data_hash(call.item)
         /\ Persisted.crawl_timestamp = call.utcnow
         /\ Len(db_change_logs) = call.logs_before + 1
         /\ LastChangeLog.book_id = call.existing.id

\* the fields of a ChangeLogCreate
ChangeLogFields == {"book_id", "changed_fields", "old_values", "new_values", "change_type"}

\* C15: process_books never aborts on one item's failure: each turn of the loop
\* processes the next item of the list, also after a turn in which process_book
\* raised; the list it builds holds, in the order of the input, the records
\* process_book returned, which are the records persisted during the batch.
C15_BatchNeverAborts ==
    /\ [](book_i >= 1 => (book_i <= Len(batch) + 1 /\ call.n = book_i - 1))
    /\ [][(book_i >= 1 /\ book_i' # book_i)
            => /\ book_i' = book_i + 1
               /\ call'.item = batch[book_i]
               /\ change_logs' = IF call'.result.kind = "change_log"
                                 THEN Append(change_logs, call'.result.change_log)
                                 ELSE change_logs]_vars
    /\ [](\A k \in 1 .. Len(change_logs) :
            \A f \in ChangeLogFields :
                db_change_logs[Len(db_change_logs) - Len(change_logs) + k][f]
                  = change_logs[k][f])

\* C15, its case: the first item of the batch is a changed version of the
\* persisted book, on which process_book raises; the second is a new book, whose
\* record is the list that is returned
C15_Witness ==
    /\ Len(batch) = 2
    /\ book_i = 3
    /\ Len(db_change_logs) = 2
    /\ db_change_logs[1].new_values.source_url = batch[1].source_url
    /\ db_change_logs[1].new_values.availability # batch[1].availability
    /\ call.item = batch[2]
    /\ call.result.kind = "change_log"
    /\ change_logs = <<call.result.change_log>>

(***************************************************************************)
(* The claims about the comparison                                         *)
(***************************************************************************)
\* the change kinds in the order of their priority, each with its fields
ChangeKindPriority ==
    << <<{"price_including_tax", "price_excluding_tax"}, "price_change">>,
       <<{"availability"}, "availability_change">>,
       <<{"name", "description"}, "metadata_change">>,
       <<{"rating"}, "rating_change">> >>

\* the kind of the first entry, from entry n on, that has a changed field
RECURSIVE FirstMatch(_, _)
FirstMatch(n, changed) ==
    IF n > Len(ChangeKindPriority) THEN "other_change"
    ELSE IF ChangeKindPriority[n][1] \cap changed # {} THEN ChangeKindPriority[n][2]
    ELSE FirstMatch(n + 1, changed)

ComparedChanged == Range(cmp.change_info.changed_fields)

\* C11: the change type computed for an existing item is the first match of the
\* fixed priority price, availability, name or description, rating, other; price
\* and availability both changed is price_change, availability alone is
\* availability_change.
C11_ChangeKindByPriority ==
    cmp.at = "classified"
      => /\ cmp.change_type = FirstMatch(1, ComparedChanged)
         /\ ({"price_including_tax", "availability"} \subseteq ComparedChanged
               => cmp.change_type = "price_change")
         /\ (ComparedChanged = {"availability"}
               => cmp.change_type = "availability_change")

\* C11, its case: price and availability both changed, classified price_change
C11_Witness ==
    /\ cmp.at = "classified"
    /\ {"price_including_tax", "availability", "name"} \subseteq ComparedChanged
    /\ cmp.change_type = "price_change"

\* two values of a tracked field count as equal: prices up to the tolerance 0.01
SameValue(field, old, new) ==
    IF field \in {"price_including_tax", "price_excluding_tax"}
    THEN Abs(old - new) <= PriceTolerance
    ELSE old = new

\* the tracked fields in which the compared book and item differ
Differing ==
    {f \in {"name", "price_including_tax", "price_excluding_tax", "availability",
            "rating", "description", "number_of_reviews"} :
        ~SameValue(f, cmp.old_book[f], cmp.new_book_data[f])}

\* C12: when the fingerprints differ, the changed fields _detect_changes reports
\* are exactly the tracked fields whose persisted and new values differ (prices
\* within 0.01 count as equal), each once, and old_values and new_values map
\* exactly these fields to the persisted and to the new value.
C12_ChangedFieldsExact ==
    cmp.at \in {"detected", "None", "classified"}
      => /\ cmp.change_info.found = (Differing # {})
         /\ ComparedChanged = Differing
         /\ Len(cmp.change_info.changed_fields) = Cardinality(Differing)
         /\ DOMAIN cmp.change_info.old_values = Differing
         /\ DOMAIN cmp.change_info.new_values = Differing
         /\ \A f \in Differing :
               /\ cmp.change_info.old_values[f] = cmp.old_book[f]
               /\ cmp.change_info.new_values[f] = cmp.new_book_data[f]

\* C12, its case: the fingerprints differ by a price that is within the
\* tolerance, and the description and the review count changed
C12_Witness ==
    /\ cmp.at = "detected"
    /\ cmp.old_book.price_including_tax # cmp.new_book_data.price_including_tax
    /\ ComparedChanged = {"description", "number_of_reviews"}

\* C20: a persisted book and a crawled item have the same fingerprint exactly
\* when they agree on name, price_including_tax, price_excluding_tax,
\* availability and rating; the fingerprint of one input is one value.
C20_FingerprintExact ==
    cmp.at \notin {"none", "start"}
      => /\ (cmp.old_book.data_hash = cmp.new_hash)
              <=> (\A f \in {"name", "price_including_tax", "price_excluding_tax",
                             "availability", "rating"} :
                      cmp.old_book[f] = cmp.new_book_data[f])
         /\ (ModelDump(cmp.old_book) = ModelDump(cmp.new_book_data)
               => cmp.old_book.data_hash = cmp.new_hash)

\* C20, its case: the rating alone changed, and the fingerprint with it
C20_Witness ==
    /\ cmp.at = "changes"
    /\ cmp.old_book.rating # cmp.new_book_data.rating
    /\ \A f \in ItemFields \ {"rating"} : cmp.old_book[f] = cmp.new_book_data[f]
    /\ cmp.old_book.data_hash # cmp.new_hash

(***************************************************************************)
(* The claims about re-crawls, the identifiers and the change log          *)
(***************************************************************************)
\* the fields generate_data_hash reads
SignificantFields == {"name", "price_including_tax", "price_excluding_tax",
                      "availability", "rating"}

\* the step is a call of process_book
IsCall == call'.n = call.n + 1

\* C21: a re-crawl that differs from the persisted book in nothing but the
\* description and the number of reviews matches the stored fingerprint: the call
\* returns no ChangeRecord, appends nothing to the change log and leaves the
\* persisted description and number of reviews as they were, at every re-crawl.
C21_DescriptionOnlyRecrawl ==
    [][(/\ IsCall
        /\ call'.found
        /\ \A f \in SignificantFields : call'.item[f] = call'.existing[f])
       => /\ call'.existing.data_hash = generate_data_hash(ModelDump(call'.item))
          /\ call'.result = ReturnedNone
          /\ db_change_logs' = db_change_logs
          /\ Persisted'.description = call'.existing.description
          /\ Persisted'.number_of_reviews = call'.existing.number_of_reviews]_vars

\* the second re-crawl in a row brings another description and another number of
\* reviews than the persisted ones, and nothing is recorded
C21_Witness ==
    /\ call.n = 2
    /\ call.found
    /\ \A f \in SignificantFields : call.item[f] = call.existing[f]
    /\ call.item.description # call.existing.description
    /\ call.item.number_of_reviews # call.existing.number_of_reviews
    /\ call.previous.description # call.existing.description
    /\ call.result = ReturnedNone
    /\ Persisted.description = call.existing.description
    /\ Len(db_change_logs) = call.logs_before

\* the identifiers of the persisted books
BookIds(docs) == {docs[i].id : i \in 1 .. Len(docs)}

\* C22: the id of a persisted book is assigned when its source_url is first
\* persisted and never changes: every step keeps the id and the source_url of
\* every persisted book, a newly persisted book gets an id no other book has, an
\* upsert under a persisted URL replaces the crawled fields and keeps the id, and
\* every ChangeRecord a call returns carries the id of the book of its URL.
C22_IdIsStable ==
    [][/\ Len(db_books') >= Len(db_books)
       /\ \A i \in 1 .. Len(db_books) :
             /\ db_books'[i].id = db_books[i].id
             /\ db_books'[i].source_url = db_books[i].source_url
       /\ \A i \in (Len(db_books) + 1) .. Len(db_books') :
             /\ db_books'[i].id \notin BookIds(db_books)
             /\ db_books'[i].source_url = call'.item.source_url
             /\ ~call'.found
       /\ (IsCall /\ call'.found /\ call'.result = ReturnedBook)
             => /\ Persisted'.id = call'.existing.id
                /\ \A f \in ItemFields : Persisted'[f] = call'.item[f]
       /\ (IsCall /\ call'.result.kind = "change_log")
             => call'.result.change_log.book_id = Persisted'.id
       /\ \A k \in 1 .. Len(db_change_logs') :
             \E i \in 1 .. Len(db_books') :
                /\ db_books'[i].id = db_change_logs'[k].book_id
                /\ db_change_logs'[k].change_type = "new_book"
                      => db_books'[i].source_url = db_change_logs'[k].new_values.source_url
      ]_vars

\* process_book has persisted a book, and an upsert under its URL has replaced
\* its availability and kept the id the ChangeRecord carries
C22_Witness ==
    /\ call.n = 2
    /\ call.found
    /\ call.result = ReturnedBook
    /\ Persisted.id = call.existing.id
    /\ Persisted.availability # call.existing.availability
    /\ Len(db_change_logs) = 1
    /\ LastChangeLog.book_id = Persisted.id

\* the identifiers of the documents of a collection
DocumentIds(docs) == {docs[k].id : k \in 1 .. Len(docs)}

\* the fields of a ChangeLogCreate
ChangeLogCreateFields == {"book_id", "changed_fields", "old_values", "new_values",
                          "change_type"}

\* C23: the change log is append-only: every step keeps every record of the log
\* as it is, a step adds one record at the most, a call that returns a
\* ChangeRecord adds exactly one, and the added record has an id no earlier
\* record or book has and the book id, the change kind and the values of the
\* ChangeRecord the call returns.
C23_AppendOnly ==
    [][/\ Len(db_change_logs') \in {Len(db_change_logs), Len(db_change_logs) + 1}
       /\ \A k \in 1 .. Len(db_change_logs) : db_change_logs'[k] = db_change_logs[k]
       /\ (IsCall /\ call'.result.kind = "change_log")
             => Len(db_change_logs') = Len(db_change_logs) + 1
       /\ Len(db_change_logs') = Len(db_change_logs) + 1
             => LET created == db_change_logs'[Len(db_change_logs')]
                IN  /\ created.id \notin DocumentIds(db_change_logs)
                    /\ created.id \notin DocumentIds(db_books')
                    /\ call'.result.kind = "change_log"
                    /\ \A f \in ChangeLogCreateFields :
                          created[f] = call'.result.change_log[f]
                    /\ created.timestamp = call'.utcnow
      ]_vars

\* two calls have appended a record each
C23_Witness ==
    /\ call.n = 2
    /\ call.result.kind = "change_log"
    /\ Len(db_change_logs) = 2
    /\ db_change_logs[1].id # db_change_logs[2].id
    /\ db_change_logs[1].book_id # db_change_logs[2].book_id
    /\ db_change_logs[2].book_id = call.result.change_log.book_id
    /\ db_change_logs[2].change_type = call.result.change_log.change_type

(***************************************************************************)
(* The claims about cancellation, the runs and the order of the fetches    *)
(***************************************************************************)
\* C24: after a cancellation of the run no task is in flight, and the run's
\* result holds the item of every page that was parsed before the cancellation.
C24_CancelDeliversExtracted ==
    pc = "cancelled"
       => /\ \A t \in TaskIds : tasks[t].at \in {"none", "done", "cancelled"}
          /\ \A u \in Urls : parsed[u] > 0 => Count(u, all_books) > 0

\* C25: every run of crawl_all starts with an empty visited set, also a run on a
\* Crawler that has run before.
C25_RunStartsUnvisited == pc = "start" => visited_urls = {}

\* C26: process_book on a book whose source_url is not persisted returns a change
\* log whose change_type is "new_book" and whose changed_fields contains "new_book".
C26_NewBookNamesNewBook ==
    (call.n >= 1 /\ ~call.found)
       => /\ call.result.kind = "change_log"
          /\ call.result.change_log.change_type = "new_book"
          /\ "new_book" \in Range(call.result.change_log.changed_fields.items)

(***************************************************************************)
(* The claims about the extractor                                          *)
(***************************************************************************)
\* the rating word a text is, the letter case and the blanks around it aside
WordOf(text) == Strip(Lower(text))

\* C27: rating_to_int maps the words zero, one, two, three, four, five, in any
\* letter case, to 0, 1, 2, 3, 4, 5, and every text that is none of these words
\* to 0.
C27_RatingWords ==
    page.at = "rating"
       => page.rating =
             IF \E n \in 1 .. Len(rating_map) : rating_map[n].key = WordOf(page.rating_text)
             THEN rating_map[CHOOSE n \in 1 .. Len(rating_map) :
                                rating_map[n].key = WordOf(page.rating_text)].value
             ELSE 0

\* C28: every BookCreate the extractor produces has a rating in 0..5 and prices
\* that are not negative.
C28_ItemRanges ==
    page.at = "BookCreate"
       => /\ page.rating \in 0 .. 5
          /\ page.price_including_tax.num >= 0
          /\ page.price_excluding_tax.num >= 0

\* the fetch of a listing page is issued in this step
ListingFetchIssued == tasks[0].at = "none" /\ tasks'[0].at = "acquire"

C30_NextPageAfterAllDetails ==
    [][/\ (pc = "gather" /\ pc' # "gather")
          => \A t \in BookTasks : tasks[t].at \in {"none", "done"}
       /\ (ListingFetchIssued /\ pc # "start")
          => /\ pc = "while"
             /\ \A t \in BookTasks : tasks[t].at = "none"
       /\ \A t \in BookTasks :
             (tasks[t].at # "done" /\ tasks'[t].at = "done" /\ tasks'[t].result = NoUrl)
                => /\ pc' = "gather"
                   /\ \A s \in BookTasks \ {t} : tasks'[s] = tasks[s]
      ]_vars

\* the second listing page of a category is being fetched after the detail task
\* of the first one has delivered a book
C30_Witness ==
    /\ cat = 1
    /\ pc = "fetch_page"
    /\ tasks[0].at = "inflight"
    /\ Len(books) = 1
    /\ Cardinality(visited_urls) = NumUrls
    /\ \A t \in BookTasks : tasks[t] = NoTask

(***************************************************************************)
(* The claims about the slots and the backoff delays                       *)
(***************************************************************************)
\* the tasks inside "async with self.semaphore"
InGate == {t \in TaskIds : tasks[t].at \in {"inflight", "sleep_in_gate"}}

\* a call of _fetch_with_retry is under way
Fetching == {t \in TaskIds : tasks[t].at \in {"acquire", "inflight", "sleep_in_gate", "sleep"}}

\* C31: every slot a fetch attempt takes is released on every exit path: the
\* free slots and the tasks inside the gate add up to the size of the gate, all
\* slots are free when no fetch is under way, and a task that waits at the gate
\* is admitted in the end.
C31_SlotsReleased ==
    /\ [](semaphore + Cardinality(InGate) = MaxConcurrent)
    /\ [](Fetching = {} => semaphore = MaxConcurrent)
    /\ \A t \in TaskIds : (tasks[t].at = "acquire") ~> (tasks[t].at = "inflight")

\* a task waits at the full gate for its second attempt, after an attempt that an
\* exception ended, while another task sleeps inside the gate
C31_Witness ==
    /\ semaphore = 0
    /\ \E t \in TaskIds, s \in TaskIds :
          /\ tasks[t].at = "acquire"
          /\ tasks[t].attempt = 1
          /\ tasks[s].at = "sleep_in_gate"

\* b to the power k
RECURSIVE Power(_, _)
Power(b, k) == IF k = 0 THEN 1 ELSE b * Power(b, k - 1)

Rewritten == call.found /\ \E f \in ItemFields : Persisted[f] # call.existing[f]

\* the last call has appended a ChangeRecord of the book of its URL
Recorded ==
    /\ Len(db_change_logs) = call.logs_before + 1
    /\ LastChangeLog.book_id = Persisted.id

\* C34: the write of a persisted book and the append of its ChangeRecord happen
\* together: after a process call has returned or failed, a book it has inserted
\* has its new_book record in the log, and a book it has updated to new values
\* has a change record in the log.
C34_WriteAndRecordTogether ==
    call.n >= 1
       => /\ ~call.found => (Recorded /\ LastChangeLog.change_type = "new_book")
          /\ Rewritten => (Recorded /\ LastChangeLog.change_type # "new_book")

\* the tracked fields but the price with tax agree between the item and the book
OnlyPriceMayDiffer ==
    \A n \in 1 .. Len(TrackedFields) :
        TrackedFields[n] # "price_including_tax"
           => call.item[TrackedFields[n]] = call.existing[TrackedFields[n]]

\* C38: a re-crawl whose price stays within 0.01 of the persisted price, the other
\* tracked fields being equal, emits no ChangeRecord and leaves the persisted price
\* and fingerprint as they are; a re-crawl whose price is more than 0.01 away
\* emits a price_change record whose old value is the persisted price.
C38_PriceDrift ==
    (call.n >= 1 /\ call.found /\ OnlyPriceMayDiffer)
       => IF Abs(call.item.price_including_tax - call.existing.price_including_tax)
                <= PriceTolerance
          THEN /\ call.result = ReturnedNone
               /\ Len(db_change_logs) = call.logs_before
               /\ Persisted.price_including_tax = call.existing.price_including_tax
               /\ Persisted.data_hash = call.existing.data_hash
          ELSE /\ call.result.kind = "change_log"
               /\ call.result.change_log.change_type = "price_change"
               /\ call.result.change_log.old_values.price_including_tax
                     = call.existing.price_including_tax

\* the persisted books of a URL
BooksOf(docs, url) == {i \in 1 .. Len(docs) : docs[i].source_url = url}

\* C35: after any sequence of process calls, also with one source_url several
\* times in a batch, the store holds exactly one book for every source_url that was
\* processed, and no persisted book is ever removed: no two books share a URL,
\* every step keeps the books there are under their URLs, and after a call the
\* store holds one book of the call's URL.
C35_OneBookPerUrl ==
    /\ [](\A i \in 1 .. Len(db_books) : BooksOf(db_books, db_books[i].source_url) = {i})
    /\ [][/\ Len(db_books') >= Len(db_books)
          /\ \A i \in 1 .. Len(db_books) : db_books'[i].source_url = db_books[i].source_url
          /\ IsCall => Cardinality(BooksOf(db_books', call'.item.source_url)) = 1
         ]_vars

\* a batch of two items of one source_url is through, on a store that was empty:
\* there is one book
C35_Witness ==
    /\ Len(batch) = 2
    /\ batch[1].source_url = batch[2].source_url
    /\ batch[1] # batch[2]
    /\ book_i = 3
    /\ call.n = 2
    /\ call.logs_before = 1
    /\ Len(db_books) = 1

\* C36: the change log holds one new_book record per source_url at the most, and
\* that record stands before every other ChangeRecord of the same book.
C36_OneNewBookRecordFirst ==
    \A k \in 1 .. Len(db_change_logs), l \in 1 .. Len(db_change_logs) :
        LET first == db_change_logs[k]
            other == db_change_logs[l]
        IN  (k # l /\ first.change_type = "new_book")
               => /\ other.change_type = "new_book"
                     => other.new_values.source_url # first.new_values.source_url
                  /\ (other.change_type # "new_book" /\ other.book_id = first.book_id)
                     => k < l

\* the second call on a source_url has found the book, and the log holds the one
\* new_book record of the first call
C36_Witness ==
    /\ call.n = 2
    /\ call.found
    /\ call.previous.source_url = call.item.source_url
    /\ Len(db_change_logs) = 1
    /\ db_change_logs[1].change_type = "new_book"
    /\ db_change_logs[1].new_values.source_url = call.item.source_url

\* C37: in every state that create, upsert_by_url and process_book calls reach,
\* the data_hash of each persisted book is the fingerprint of the significant
\* fields the book holds.
C37_FingerprintOfStoredFields ==
    \A i \in 1 .. Len(db_books) : db_books[i].data_hash = generate_data_hash(db_books[i])

\* process_book has written new values to a book that create or upsert_by_url
\* had inserted, and the call has failed after the write
C37_Witness ==
    /\ call.n = 2
    /\ call.found
    /\ call.result = Raised
    /\ Persisted.availability # call.existing.availability
    /\ Persisted.data_hash # call.existing.data_hash
    /\ Len(db_change_logs) = 0

(***************************************************************************)
(* The claim about the rate limiter                                        *)
(***************************************************************************)
\* the requests of the client that were admitted in the hour that ends at t
AdmittedIn(answered, client_id, t) ==
    {k \in 1 .. Len(answered) :
        /\ answered[k].client_id = client_id
        /\ answered[k].status # 429
        /\ answered[k].now > t - Hour
        /\ answered[k].now <= t}

\* C39: for each client id the limiter admits rate_limit_per_hour requests at the
\* most within any trailing hour; a request that arrives when the hour holds that
\* many is answered 429 and is not recorded, every other request is admitted and
\* recorded, and the stored count is the number of the recorded request times.
C39_RateLimit ==
    /\ [](\A c \in Clients, t \in 0 .. now :
             Cardinality(AdmittedIn(responses, c, t)) <= rate_limit_per_hour)
    /\ [](\A c \in DOMAIN rate_limit_store :
             rate_limit_store[c].count = Len(rate_limit_store[c].requests))
    /\ [][Len(responses') = Len(responses) + 1
            => LET answer == responses'[Len(responses')]
                   c == answer.client_id
               IN  /\ answer.status = 429
                        <=> Cardinality(AdmittedIn(responses, c, answer.now))
                               >= rate_limit_per_hour
                   /\ Len(rate_limit_store'[c].requests)
                         = Cardinality(AdmittedIn(responses', c, answer.now))
                   /\ \A k \in 1 .. Len(rate_limit_store'[c].requests) :
                         \E a \in AdmittedIn(responses', c, answer.now) :
                            responses'[a].now = rate_limit_store'[c].requests[k]
         ]_vars

\* a client is turned away while its hour is full, and admitted again once its
\* first requests are an hour old
C39_Witness ==
    /\ Len(responses) >= rate_limit_per_hour + 2
    /\ \A k \in 1 .. rate_limit_per_hour : responses[k].status = 200
    /\ \A k \in 1 .. (rate_limit_per_hour + 2) : responses[k].client_id = "key"
    /\ responses[rate_limit_per_hour + 1].status = 429
    /\ responses[rate_limit_per_hour + 2].status = 200

(***************************************************************************)
(* The claim about calls that run beside one another                       *)
(***************************************************************************)
\* the calls one after another, in the given order, on the store
RECURSIVE OneAfterAnother(_, _, _)
OneAfterAnother(store, order, k) ==
    IF k = 0 THEN store
    ELSE ProcessBookAlone(OneAfterAnother(store, order, k - 1),
                          procs.proc[order[k]].item, now)

\* the orders the calls can be made in
Orders == {order \in [1 .. NumItemUrls -> Procs] :
              \A i, j \in 1 .. NumItemUrls : i # j => order[i] # order[j]}

\* the persisted items, without the identifiers and the crawl timestamps that
\* differ from run to run
ItemsOf(docs) ==
    {[f \in DOMAIN docs[i] \ {"id", "crawl_timestamp"} |-> docs[i][f]] :
        i \in 1 .. Len(docs)}

\* the change records, each with the source_url of its book for the book_id
RecordsOf(docs, logs) ==
    {[source_url |-> IF FindOne(docs, "id", logs[i].book_id) = 0 THEN 0
                     ELSE docs[FindOne(docs, "id", logs[i].book_id)].source_url,
      changed_fields |-> logs[i].changed_fields,
      old_values |-> logs[i].old_values,
      new_values |-> logs[i].new_values,
      change_type |-> logs[i].change_type] : i \in 1 .. Len(logs)}

AllDone == \A p \in Procs : procs.proc[p].at = "done"

\* C33: when process_book calls for items of pairwise distinct source_url have
\* run beside one another, in whatever order their database operations took
\* place, the store holds the same books and the same change records as after
\* the same calls made one after another, in any order.
C33_ParallelAsSequential ==
    AllDone =>
        \A order \in Orders :
            LET after == OneAfterAnother(procs.store, order, NumItemUrls)
            IN  /\ Len(db_books) = Len(after.books)
                /\ ItemsOf(db_books) = ItemsOf(after.books)
                /\ Len(db_change_logs) = Len(after.change_logs)
                /\ RecordsOf(db_books, db_change_logs)
                      = RecordsOf(after.books, after.change_logs)

\* two calls have run beside one another: the second inserted its book between
\* the lookup and the insert of the first, and both wrote their records
C33_Witness ==
    /\ AllDone
    /\ procs.store.books = <<>>
    /\ Len(db_books) >= 2
    /\ db_books[1].source_url = 2
    /\ db_books[1].id > db_books[2].id
    /\ Len(db_change_logs) >= 2

(***************************************************************************)
(* The specifications: a crawl run, and a sequence of process_book calls   *)
(***************************************************************************)
Init == InitCrawler /\ InitDetector /\ InitBatch /\ cmp = NoComparison /\ page = NoPage /\ procs = <<>> /\ InitRateLimit

Next == NextCrawler

Spec == Init /\ [][Next]_vars

\* the event loop runs every task that can run, and every request ends
FairSpec == Spec /\ WF_vars(Next)

InitDetect ==
    InitDetector /\ InitCrawler /\ max_attempts = 1 /\ InitBatch /\ cmp = NoComparison /\ page = NoPage /\ procs = <<>> /\ InitRateLimit

NextDetect == Process

SpecDetect == InitDetect /\ [][NextDetect]_vars

InitCompared ==
    /\ InitCompare /\ InitDetector /\ InitCrawler /\ max_attempts = 1 /\ InitBatch
    /\ page = NoPage /\ procs = <<>> /\ InitRateLimit

SpecCompare == InitCompared /\ [][NextCompare]_vars

InitBatched == InitProcessBooks /\ InitCrawler /\ max_attempts = 1 /\ cmp = NoComparison /\ page = NoPage /\ procs = <<>> /\ InitRateLimit

SpecBatch == InitBatched /\ [][NextProcessBooks]_vars


InitRecrawled == InitRecrawl /\ InitCrawler /\ max_attempts = 1 /\ InitBatch /\ cmp = NoComparison /\ page = NoPage /\ procs = <<>> /\ InitRateLimit

SpecRecrawl == InitRecrawled /\ [][NextRecrawl]_vars


SpecStore == InitDetect /\ [][StoreUpsert \/ StoreProcess]_vars


SpecCancel == Init /\ [][NextCancel]_vars


SpecRuns == Init /\ [][NextRuns]_vars


InitParsed ==
    /\ InitParse /\ InitCrawler /\ max_attempts = 1 /\ InitDetector /\ InitBatch
    /\ cmp = NoComparison /\ procs = <<>> /\ InitRateLimit

SpecParse == InitParsed /\ [][NextParse]_vars


SpecRepository == InitDetect /\ [][StoreCreate \/ StoreUpsert \/ StoreProcess]_vars


InitRateLimited ==
    /\ InitRateLimit /\ InitCrawler /\ max_attempts = 1 /\ InitDetector /\ InitBatch
    /\ cmp = NoComparison /\ page = NoPage /\ procs = <<>>

SpecRateLimit == InitRateLimited /\ [][Request]_vars


InitParalleled ==
    /\ InitParallel /\ InitCrawler /\ max_attempts = 1 /\ InitBatch
    /\ cmp = NoComparison /\ page = NoPage /\ InitRateLimit

SpecParallel == InitParalleled /\ [][NextParallel]_vars

====
